---- MODULE Spec2Model ----
(***************************************************************************)
(* Model of @foxglove/rosmsg2-serialization: MessageWriter                 *)
(* (src/src/MessageWriter.ts) and MessageReader (src/src/MessageReader.ts).*)
(* A codec is built from a list of message definitions; the writer sizes   *)
(* and serializes message values to CDR bytes, the reader decodes them.    *)
(***************************************************************************)
EXTENDS Integers, Sequences, FiniteSets, TLC

VARIABLES definitions, writer, reader, call
vars == <<definitions, writer, reader, call>>

(***************************************************************************)
(* Bounds of the model                                                     *)
(***************************************************************************)
\* number of fields of a generated root definition
MaxFields == 2
\* number of constants-only modules in front of the root definition
MaxPreamble == 2
\* payload bytes of the buffers handed to readMessage
MaxPayload == 9
\* the largest offset handed to padding on its own
MaxOffset == 40
\* the deepest nesting of the definitions whose traversal is followed
MaxDepth == 3
\* the frames the call stack holds before the engine gives up
MaxStack == 6
\* the largest element count a reader finds in front of an array
MaxCount == 2

(***************************************************************************)
(* JavaScript values.  Every value is a record with a kind k and a         *)
(* payload v; a typed array also has its constructor t.                    *)
(***************************************************************************)
Undefined == [k |-> "undefined", v |-> 0]
Num(n) == [k |-> "number", v |-> n]
Big(n) == [k |-> "bigint", v |-> n]
Bool(b) == [k |-> "boolean", v |-> IF b THEN 1 ELSE 0]
\* a string is its sequence of UTF-16 code units
Str(s) == [k |-> "string", v |-> s]
Arr(s) == [k |-> "array", v |-> s]
Typed(t, s) == [k |-> "typed", t |-> t, v |-> s]
\* an object is a function from its own property names to values
Obj(f) == [k |-> "object", v |-> f]
EmptyObj == Obj([n \in {} |-> Undefined])

\* value == undefined (null is not used by the model)
IsNullish(x) == x.k = "undefined"

\* messageObj?.[name]: property read of a message object
Prop(messageObj, name) ==
  IF messageObj.k = "object" /\ name \in DOMAIN messageObj.v
  THEN messageObj.v[name]
  ELSE Undefined

(***************************************************************************)
(* Errors thrown by the codec and by the CDR layer                         *)
(***************************************************************************)
NoError == ""
ErrNoRoot == "MessageReader initialized with no root MessageDefinition"
ErrComplex == "Unrecognized complex type <type>"
ErrPrimitive == "Unrecognized primitive type <type>"
ErrPrimitiveArray == "Unrecognized primitive array type <type>[]"
ErrPrimitiveArrayWriter == "Unrecognized primitive type <type>[]"
ErrWstring == "wstring is implementation-defined and therefore not supported"
ErrRange == "RangeError"

(***************************************************************************)
(* Message definitions                                                     *)
(***************************************************************************)
\* field.arrayLength == undefined
NoLength == -1

Field(name, type, isArray, arrayLength, isComplex, isConstant, defaultValue) ==
  [name |-> name, type |-> type, isArray |-> isArray, arrayLength |-> arrayLength,
   isComplex |-> isComplex, isConstant |-> isConstant, defaultValue |-> defaultValue]

Definition(name, fields) == [name |-> name, definitions |-> fields]

PRIMITIVE_SIZES ==
  [bool |-> 1, int8 |-> 1, uint8 |-> 1, int16 |-> 2, uint16 |-> 2,
   int32 |-> 4, uint32 |-> 4, int64 |-> 8, uint64 |-> 8,
   float32 |-> 4, float64 |-> 8, time |-> 8, duration |-> 8]

PRIMITIVE_WRITERS == DOMAIN PRIMITIVE_SIZES \cup {"string"}

PRIMITIVE_ARRAY_WRITERS == DOMAIN PRIMITIVE_SIZES \cup {"string"}

\* DefinitionMap in which the first entry of a name stays
DefinitionMapFirstWins(defs) ==
  [n \in {defs[i].name : i \in DOMAIN defs} |->
     LET first == CHOOSE i \in DOMAIN defs :
                    /\ defs[i].name = n
                    /\ \A j \in DOMAIN defs : defs[j].name = n => i <= j
     IN  defs[first].definitions]

\* new Map(definitions.map((def) => [def.name, def.definitions])): a later
\* entry with the same name replaces an earlier one
DefinitionMap(defs) ==
  [n \in {defs[i].name : i \in DOMAIN defs} |->
     LET last == CHOOSE i \in DOMAIN defs :
                   /\ defs[i].name = n
                   /\ \A j \in DOMAIN defs : defs[j].name = n => j <= i
     IN  defs[last].definitions]

(***************************************************************************)
(* Alignment                                                               *)
(***************************************************************************)
\* padding measured from the start of the buffer, the header included
paddingFromStart(offset, byteWidth) ==
  IF offset % byteWidth > 0 THEN byteWidth - (offset % byteWidth) ELSE 0

\* padding that adds a whole byteWidth at an aligned offset
paddingWithoutZero(offset, byteWidth) ==
  byteWidth - ((offset - 4) % byteWidth)

padding(offset, byteWidth) ==
  LET alignment == (offset - 4) % byteWidth
  IN  IF alignment > 0 THEN byteWidth - alignment ELSE 0

(***************************************************************************)
(* CdrWriter of @foxglove/cdr as MessageWriter uses it: kind CDR_LE, a     *)
(* 4-byte encapsulation header, alignment relative to origin 4, a buffer   *)
(* that grows on demand.  A writer is [data, error]; data holds the bytes  *)
(* up to the write offset, so writer.data is the returned array.           *)
(***************************************************************************)
Header == <<0, 1, 0, 0>>

RECURSIVE Zeros(_)
Zeros(n) == IF n <= 0 THEN <<>> ELSE <<0>> \o Zeros(n - 1)

\* the low `width` bytes of the two's complement of v, little endian
RECURSIVE LEBytes(_, _)
LEBytes(v, width) ==
  IF width = 0 THEN <<>> ELSE <<v % 256>> \o LEBytes(v \div 256, width - 1)

\* floor(log2(n)) for n >= 1
RECURSIVE Log2(_)
Log2(n) == IF n < 2 THEN 0 ELSE 1 + Log2(n \div 2)

RECURSIVE Pow2(_)
Pow2(e) == IF e = 0 THEN 1 ELSE 2 * Pow2(e - 1)

\* IEEE 754 single precision bytes of a small non-negative integer
Float32Bytes(n) ==
  IF n = 0 THEN Zeros(4)
  ELSE LET e == Log2(n)
       IN  LEBytes((127 + e) * Pow2(23) + (n - Pow2(e)) * Pow2(23 - e), 4)

\* IEEE 754 double precision bytes of a small non-negative integer
Float64Bytes(n) ==
  IF n = 0 THEN Zeros(8)
  ELSE LET e == Log2(n)
       IN  Zeros(4) \o LEBytes((1023 + e) * Pow2(20) + (n - Pow2(e)) * Pow2(20 - e), 4)

CdrWriter == [data |-> Header, error |-> NoError]

Throw(w, e) == IF w.error = NoError THEN [w EXCEPT !.error = e] ELSE w

Emit(w, bytes) == IF w.error = NoError THEN [w EXCEPT !.data = @ \o bytes] ELSE w

\* CdrWriter.align: zero bytes up to the next multiple of size after the origin
cdrAlign(w, size) == Emit(w, Zeros(padding(Len(w.data), size)))

cdrInt8(w, n) == Emit(w, LEBytes(n, 1))
cdrUint8(w, n) == Emit(w, LEBytes(n, 1))
cdrInt16(w, n) == Emit(cdrAlign(w, 2), LEBytes(n, 2))
cdrUint16(w, n) == Emit(cdrAlign(w, 2), LEBytes(n, 2))
cdrInt32(w, n) == Emit(cdrAlign(w, 4), LEBytes(n, 4))
cdrUint32(w, n) == Emit(cdrAlign(w, 4), LEBytes(n, 4))
cdrInt64(w, n) == Emit(cdrAlign(w, 8), LEBytes(n, 8))
cdrUint64(w, n) == Emit(cdrAlign(w, 8), LEBytes(n, 8))
cdrFloat32(w, n) == Emit(cdrAlign(w, 4), Float32Bytes(n))
cdrFloat64(w, n) == Emit(cdrAlign(w, 8), Float64Bytes(n))
cdrSequenceLength(w, n) == cdrUint32(w, n)

\* UTF-8 bytes of one UTF-16 code unit (no surrogates in the model)
Utf8Char(c) ==
  IF c < 128 THEN <<c>>
  ELSE IF c < 2048 THEN <<192 + (c \div 64), 128 + (c % 64)>>
  ELSE <<224 + (c \div 4096), 128 + ((c \div 64) % 64), 128 + (c % 64)>>

\* TextEncoder.encodeInto(s, dest) with dest of `room` bytes: whole
\* characters while they fit
RECURSIVE EncodeInto(_, _)
EncodeInto(s, room) ==
  IF s = <<>> \/ Len(Utf8Char(Head(s))) > room THEN <<>>
  ELSE Utf8Char(Head(s)) \o EncodeInto(Tail(s), room - Len(Utf8Char(Head(s))))

\* CdrWriter.string: uint32 (length + 1), `length` bytes, a terminating zero,
\* where length is value.length (UTF-16 code units)
cdrString(w, s) ==
  LET strlen == Len(s)
      enc == EncodeInto(s, strlen)
  IN  Emit(cdrUint32(w, strlen + 1), enc \o Zeros(strlen - Len(enc)) \o <<0>>)

\* the scalar write method of CdrWriter for a numeric primitive type
cdrNumber(w, type, n) ==
  CASE type = "int8" -> cdrInt8(w, n)
    [] type = "uint8" -> cdrUint8(w, n)
    [] type = "int16" -> cdrInt16(w, n)
    [] type = "uint16" -> cdrUint16(w, n)
    [] type = "int32" -> cdrInt32(w, n)
    [] type = "uint32" -> cdrUint32(w, n)
    [] type = "int64" -> cdrInt64(w, n)
    [] type = "uint64" -> cdrUint64(w, n)
    [] type = "float32" -> cdrFloat32(w, n)
    [] type = "float64" -> cdrFloat64(w, n)

\* CdrWriter.<type>Array(value) without a length prefix: the elements one
\* after the other, each aligned; nothing at all for an empty array
RECURSIVE cdrNumberArray(_, _, _)
cdrNumberArray(w, type, ns) ==
  IF ns = <<>> THEN w
  ELSE cdrNumberArray(cdrNumber(w, type, Head(ns)), type, Tail(ns))

(***************************************************************************)
(* MessageWriter: the primitive writers                                    *)
(***************************************************************************)
ErrType == "TypeError"

\* ToNumber as the DataView setters and typed array constructors apply it
ToNumber(x) == IF x.k \in {"number", "boolean"} THEN x.v ELSE 0

\* ToBoolean
Truthy(x) ==
  CASE x.k = "undefined" -> FALSE
    [] x.k \in {"number", "bigint", "boolean"} -> x.v # 0
    [] x.k = "string" -> x.v # <<>>
    [] OTHER -> TRUE

\* value.length of a string or an array
LengthOf(x) == IF x.k \in {"string", "array", "typed"} THEN Len(x.v) ELSE 0

fieldLength(value) ==
  CASE value.k \in {"string", "array", "typed"} -> Len(value.v)
    [] value.k = "object" ->
         IF Prop(value, "length").k = "number" THEN Prop(value, "length").v ELSE 0
    [] OTHER -> 0

bool(value, defaultValue, w) ==
  LET boolValue == IF value.k = "boolean" THEN value.v = 1 ELSE Truthy(defaultValue)
  IN  cdrInt8(w, IF boolValue THEN 1 ELSE 0)

\* number that writes 0 for every value that is no number
numberWithoutDefault(type, value, defaultValue, w) ==
  cdrNumber(w, type, IF value.k = "number" THEN value.v ELSE 0)

\* int8 ... uint32, float32, float64: the value if it is a number, else the
\* declared default, else 0
number(type, value, defaultValue, w) ==
  cdrNumber(w, type, IF value.k = "number" THEN value.v ELSE ToNumber(defaultValue))

\* int64, uint64 that take a bigint only and replace a number by the default
bigintOnly(type, value, defaultValue, w) ==
  CASE value.k = "bigint" -> cdrNumber(w, type, value.v)
    [] value.k # "bigint" /\ defaultValue.k \in {"bigint", "undefined"} ->
         cdrNumber(w, type, defaultValue.v)
    [] OTHER -> Throw(w, ErrType)

\* int64, uint64
bigint(type, value, defaultValue, w) ==
  CASE value.k \in {"bigint", "number"} -> cdrNumber(w, type, value.v)
    [] value.k \notin {"bigint", "number"} /\ defaultValue.k \in {"bigint", "undefined"} ->
         cdrNumber(w, type, defaultValue.v)
    [] OTHER -> Throw(w, ErrType)

string(value, defaultValue, w) ==
  cdrString(w, IF value.k = "string" THEN value.v
               ELSE IF defaultValue.k = "string" THEN defaultValue.v ELSE <<>>)

\* time that takes the fraction from nsec only
timeNsecOnly(value, w) ==
  IF IsNullish(value)
  THEN cdrUint32(cdrInt32(w, 0), 0)
  ELSE cdrUint32(cdrInt32(w, ToNumber(Prop(value, "sec"))), ToNumber(Prop(value, "nsec")))

time(value, w) ==
  IF IsNullish(value)
  THEN cdrUint32(cdrInt32(w, 0), 0)
  ELSE LET sec == Prop(value, "sec")
           nsec == Prop(value, "nsec")
           nanosec == Prop(value, "nanosec")
       IN  cdrUint32(cdrInt32(w, ToNumber(sec)),
                     IF ~IsNullish(nsec) THEN ToNumber(nsec) ELSE ToNumber(nanosec))

primitiveWriter(type, value, defaultValue, w) ==
  CASE type = "bool" -> bool(value, defaultValue, w)
    [] type \in {"int64", "uint64"} -> bigint(type, value, defaultValue, w)
    [] type = "string" -> string(value, defaultValue, w)
    [] type \in {"time", "duration"} -> time(value, w)
    [] OTHER -> number(type, value, defaultValue, w)

\* the typed array class a primitive array writer passes through unchanged
TypedArrayOf ==
  [int8 |-> {"Int8Array"}, uint8 |-> {"Uint8Array", "Uint8ClampedArray"},
   int16 |-> {"Int16Array"}, uint16 |-> {"Uint16Array"},
   int32 |-> {"Int32Array"}, uint32 |-> {"Uint32Array"},
   int64 |-> {"BigInt64Array"}, uint64 |-> {"BigUint64Array"},
   float32 |-> {"Float32Array"}, float64 |-> {"Float64Array"}, bool |-> {}]

\* the typed array class of a numeric primitive type
ClassOf(type) == CHOOSE c \in TypedArrayOf[type] : c # "Uint8ClampedArray"

\* the elements of a plain array as numbers
Numbers(s) == [i \in DOMAIN s |-> ToNumber(s[i])]

\* boolArray, int8Array ... float64Array: a typed array of the field's own
\* class is written as it is, a plain array is converted and written, any
\* other value is replaced by the declared default or by the empty array
numberArray(type, value, defaultValue, w) ==
  LET wide == type \in {"int64", "uint64"}
      fallback == IF defaultValue.k = "array" THEN defaultValue.v ELSE <<>>
  IN  CASE value.k = "typed" /\ value.t \in TypedArrayOf[type] ->
             cdrNumberArray(w, type, value.v)
        [] value.k = "array" ->
             IF wide /\ \E i \in DOMAIN value.v : value.v[i].k # "bigint"
             THEN Throw(w, ErrType)
             ELSE cdrNumberArray(w, IF type = "bool" THEN "int8" ELSE type,
                                 IF wide THEN [i \in DOMAIN value.v |-> value.v[i].v]
                                 ELSE Numbers(value.v))
        [] OTHER ->
             IF wide /\ \E i \in DOMAIN fallback : fallback[i].k # "bigint"
             THEN Throw(w, ErrType)
             ELSE cdrNumberArray(w, IF type = "bool" THEN "int8" ELSE type,
                                 IF wide THEN [i \in DOMAIN fallback |-> fallback[i].v]
                                 ELSE Numbers(fallback))

\* writer.string for every item; an item that is no string counts as ""
RECURSIVE stringItems(_, _)
stringItems(items, w) ==
  IF items = <<>> THEN w
  ELSE stringItems(Tail(items),
                   cdrString(w, IF Head(items).k = "string" THEN Head(items).v ELSE <<>>))

stringArray(value, defaultValue, w) ==
  IF value.k = "array"
  THEN stringItems(value.v, w)
  ELSE stringItems(IF defaultValue.k = "array" THEN defaultValue.v ELSE <<>>, w)

RECURSIVE timeItems(_, _)
timeItems(items, w) ==
  IF items = <<>> THEN w ELSE timeItems(Tail(items), time(Head(items), w))

timeArray(value, w) == IF value.k = "array" THEN timeItems(value.v, w) ELSE w

primitiveArrayWriter(type, value, defaultValue, w) ==
  CASE type = "string" -> stringArray(value, defaultValue, w)
    [] type \in {"time", "duration"} -> timeArray(value, w)
    [] OTHER -> numberArray(type, value, defaultValue, w)

(***************************************************************************)
(* MessageWriter: size calculation and serialization                       *)
(***************************************************************************)
\* a size in progress: the offset reached, or the error thrown
Size(offset) == [offset |-> offset, error |-> NoError]
Fail(r, e) == IF r.error = NoError THEN [r EXCEPT !.error = e] ELSE r
Advance(r, n) == IF r.error = NoError THEN [r EXCEPT !.offset = @ + n] ELSE r

\* this.definitions.get(datatype) != undefined
hasDefinition(self, datatype) == datatype \in DOMAIN self.definitions

\* getPrimitiveSize(type) != undefined
hasPrimitiveSize(primitiveType) == primitiveType \in DOMAIN PRIMITIVE_SIZES

\* dataArray[i] ?? fallback, with dataArray = dataIsArray ? nestedMessage : []
\* (i counts from 1)
entryAt(nestedMessage, i, fallback) ==
  CASE nestedMessage.k = "array" /\ i <= Len(nestedMessage.v) ->
         IF IsNullish(nestedMessage.v[i]) THEN fallback ELSE nestedMessage.v[i]
    [] nestedMessage.k = "typed" /\ i <= Len(nestedMessage.v) -> Num(nestedMessage.v[i])
    [] OTHER -> fallback

\* field.arrayLength ?? fieldLength(nestedMessage)
arrayLengthOf(field, nestedMessage) ==
  IF field.arrayLength # NoLength THEN field.arrayLength ELSE fieldLength(nestedMessage)

\* the alignment of a type taken to be its size, time and duration included
alignmentOfSize(type) == PRIMITIVE_SIZES[type]

alignmentOf(type) ==
  IF type = "time" \/ type = "duration" THEN 4 ELSE PRIMITIVE_SIZES[type]

RECURSIVE byteSize(_, _, _, _)
RECURSIVE byteSizeFields(_, _, _, _, _)
RECURSIVE byteSizeEntries(_, _, _, _, _, _)
RECURSIVE byteSizeStrings(_, _, _, _)

\* the string array loop of byteSize, entries i..arrayLength
byteSizeStrings(nestedMessage, i, arrayLength, r) ==
  IF i > arrayLength \/ r.error # NoError THEN r
  ELSE LET entry == entryAt(nestedMessage, i, Str(<<>>))
           aligned == Advance(r, padding(r.offset, 4))
       IN  byteSizeStrings(nestedMessage, i + 1, arrayLength,
                           Advance(aligned, 4 + LengthOf(entry) + 1))

\* the complex array loop of byteSize, entries i..arrayLength
byteSizeEntries(self, nestedDefinition, nestedMessage, i, arrayLength, r) ==
  IF i > arrayLength \/ r.error # NoError THEN r
  ELSE byteSizeEntries(self, nestedDefinition, nestedMessage, i + 1, arrayLength,
         byteSize(self, nestedDefinition, entryAt(nestedMessage, i, EmptyObj), r.offset))

\* the body of the field loop of byteSize for one field
byteSizeField(self, field, messageObj, r) ==
  LET nestedMessage == Prop(messageObj, field.name)
  IN
  IF field.isConstant THEN r
  ELSE IF field.isArray THEN
    LET arrayLength == arrayLengthOf(field, nestedMessage)
        prefixed == IF field.arrayLength = NoLength
                    THEN Advance(r, padding(r.offset, 4) + 4)
                    ELSE r
    IN  IF field.isComplex THEN
          IF hasDefinition(self, field.type)
          THEN byteSizeEntries(self, self.definitions[field.type], nestedMessage,
                               1, arrayLength, prefixed)
          ELSE Fail(prefixed, ErrComplex)
        ELSE IF field.type = "string" THEN
          byteSizeStrings(nestedMessage, 1, arrayLength, prefixed)
        ELSE IF hasPrimitiveSize(field.type)
          THEN Advance(prefixed, padding(prefixed.offset, alignmentOf(field.type))
                                 + PRIMITIVE_SIZES[field.type] * arrayLength)
          ELSE Fail(prefixed, ErrPrimitive)
  ELSE
    IF field.isComplex THEN
      IF hasDefinition(self, field.type)
      THEN byteSize(self, self.definitions[field.type],
                    IF IsNullish(nestedMessage) THEN EmptyObj ELSE nestedMessage, r.offset)
      ELSE Fail(r, ErrComplex)
    ELSE IF field.type = "string" THEN
      LET entry == IF nestedMessage.k = "string" THEN nestedMessage ELSE Str(<<>>)
      IN  Advance(r, padding(r.offset, 4) + 4 + LengthOf(entry) + 1)
    ELSE IF hasPrimitiveSize(field.type)
      THEN Advance(r, padding(r.offset, alignmentOf(field.type)) + PRIMITIVE_SIZES[field.type])
      ELSE Fail(r, ErrPrimitive)

\* the field loop of byteSize, fields i..Len(definition)
byteSizeFields(self, definition, i, messageObj, r) ==
  IF i > Len(definition) \/ r.error # NoError THEN r
  ELSE byteSizeFields(self, definition, i + 1, messageObj,
                      byteSizeField(self, definition[i], messageObj, r))

byteSize(self, definition, message, offset) ==
  byteSizeFields(self, definition, 1, message, Size(offset))

calculateByteSize(self, message) == byteSize(self, self.rootDefinition, message, 4)

RECURSIVE write(_, _, _, _)
RECURSIVE writeFields(_, _, _, _, _)
RECURSIVE writeEntries(_, _, _, _, _, _)

\* the complex array loop of write, entries i..arrayLength
writeEntries(self, nestedDefinition, nestedMessage, i, arrayLength, w) ==
  IF i > arrayLength \/ w.error # NoError THEN w
  ELSE writeEntries(self, nestedDefinition, nestedMessage, i + 1, arrayLength,
         write(self, nestedDefinition, entryAt(nestedMessage, i, EmptyObj), w))

\* the body of the field loop of write for one field
writeField(self, field, messageObj, w) ==
  LET nestedMessage == Prop(messageObj, field.name)
  IN
  IF field.isConstant THEN w
  ELSE IF field.isArray THEN
    LET arrayLength == arrayLengthOf(field, nestedMessage)
        prefixed == IF field.arrayLength = NoLength
                    THEN cdrSequenceLength(w, arrayLength)
                    ELSE w
    IN  IF field.isComplex THEN
          IF hasDefinition(self, field.type)
          THEN writeEntries(self, self.definitions[field.type], nestedMessage,
                            1, arrayLength, prefixed)
          ELSE Throw(prefixed, ErrComplex)
        ELSE IF field.type \in PRIMITIVE_ARRAY_WRITERS
          THEN primitiveArrayWriter(field.type, nestedMessage, field.defaultValue, prefixed)
          ELSE Throw(prefixed, ErrPrimitiveArrayWriter)
  ELSE
    IF field.isComplex THEN
      IF hasDefinition(self, field.type)
      THEN write(self, self.definitions[field.type],
                 IF IsNullish(nestedMessage) THEN EmptyObj ELSE nestedMessage, w)
      ELSE Throw(w, ErrComplex)
    ELSE IF field.type \in PRIMITIVE_WRITERS
      THEN primitiveWriter(field.type, nestedMessage, field.defaultValue, w)
      ELSE Throw(w, ErrPrimitive)

\* the field loop of write, fields i..Len(definition)
writeFields(self, definition, i, messageObj, w) ==
  IF i > Len(definition) \/ w.error # NoError THEN w
  ELSE writeFields(self, definition, i + 1, messageObj,
                   writeField(self, definition[i], messageObj, w))

write(self, definition, message, w) == writeFields(self, definition, 1, message, w)

\* writeMessage(message) without an output buffer: the size is calculated
\* first (and may throw), then the fields are written into a fresh CdrWriter;
\* the result is [size, data, error]
writeMessage(self, message) ==
  LET sized == calculateByteSize(self, message)
      written == write(self, self.rootDefinition, message, CdrWriter)
  IN  IF sized.error # NoError
      THEN [size |-> 0, data |-> <<>>, error |-> sized.error]
      ELSE [size |-> sized.offset,
            data |-> IF written.error = NoError THEN written.data ELSE <<>>,
            error |-> written.error]

\* writeMessage(message, output) with an output of `capacity` bytes: no size
\* is calculated, the fields are written into a CdrWriter that starts on the
\* output and moves to a larger buffer of its own when a write does not fit;
\* the result is [data, error], data the bytes written
writeMessageInto(self, message, capacity) ==
  LET written == write(self, self.rootDefinition, message, CdrWriter)
  IN  [data |-> IF written.error = NoError THEN written.data ELSE <<>>,
       error |-> written.error]

\* new MessageWriter(definitions): [rootDefinition, definitions, error]
MessageWriter(defs) ==
  IF defs = <<>>
  THEN [rootDefinition |-> <<>>, definitions |-> DefinitionMap(<<>>), error |-> ErrNoRoot]
  ELSE [rootDefinition |-> defs[1].definitions, definitions |-> DefinitionMap(defs),
        error |-> NoError]

(***************************************************************************)
(* CdrReader of @foxglove/cdr as MessageReader uses it: little endian,     *)
(* the read offset starts after the 4-byte header, alignment is relative   *)
(* to origin 4, a read past the end of the buffer throws a RangeError.     *)
(* A reader is [buffer, offset, error]; a read returns [rd, val].          *)
(***************************************************************************)
ErrCdrSize == "Invalid CDR data size"

CdrReader(buffer) ==
  [buffer |-> buffer, offset |-> 4,
   error |-> IF Len(buffer) < 4 THEN ErrCdrSize ELSE NoError]

Read(rd, val) == [rd |-> rd, val |-> val]

\* a number whose bytes lie outside the integers of the model
Raw(bytes) == [k |-> "raw", v |-> bytes]

RECURSIVE DecodeUnsigned(_)
DecodeUnsigned(bytes) ==
  IF bytes = <<>> THEN 0 ELSE Head(bytes) + 256 * DecodeUnsigned(Tail(bytes))

AllOf(bytes, from, b) == \A i \in from..Len(bytes) : bytes[i] = b

\* the integer a DataView getter returns for these little endian bytes
DecodeInt(bytes, signed) ==
  LET n == Len(bytes)
      low == SubSeq(bytes, 1, IF n > 3 THEN 3 ELSE n)
  IN  CASE n <= 3 /\ ~signed -> DecodeUnsigned(bytes)
        [] n <= 3 /\ signed ->
             IF bytes[n] >= 128 THEN DecodeUnsigned(bytes) - Pow2(8 * n)
             ELSE DecodeUnsigned(bytes)
        [] n > 3 /\ AllOf(bytes, 5, 0) /\ bytes[4] < 128 -> DecodeUnsigned(SubSeq(bytes, 1, 4))
        [] n > 3 /\ signed /\ AllOf(bytes, 4, 255) -> DecodeUnsigned(low) - Pow2(24)
        [] OTHER -> -1

\* whether the bytes decode to an integer of the model
Decodable(bytes, signed) ==
  \/ Len(bytes) <= 3
  \/ AllOf(bytes, 5, 0) /\ bytes[4] < 128
  \/ signed /\ AllOf(bytes, 4, 255)

\* the small non-negative integers whose float encodings the model decodes
FloatDomain == 0..8

DecodeFloat(bytes) ==
  LET enc(n) == IF Len(bytes) = 4 THEN Float32Bytes(n) ELSE Float64Bytes(n)
  IN  IF \E n \in FloatDomain : enc(n) = bytes
      THEN Num(CHOOSE n \in FloatDomain : enc(n) = bytes)
      ELSE Raw(bytes)

rdThrow(rd, e) == IF rd.error = NoError THEN [rd EXCEPT !.error = e] ELSE rd

rdAlign(rd, size) ==
  IF rd.error = NoError
  THEN [rd EXCEPT !.offset = @ + padding(@, size)]
  ELSE rd

\* the next n bytes, or a RangeError
rdTake(rd, n) ==
  IF rd.error # NoError THEN Read(rd, <<>>)
  ELSE IF rd.offset + n > Len(rd.buffer) THEN Read([rd EXCEPT !.error = ErrRange], <<>>)
  ELSE Read([rd EXCEPT !.offset = @ + n], SubSeq(rd.buffer, rd.offset + 1, rd.offset + n))

\* CdrReader.int8 ... float64 for a numeric primitive type: [rd, val]
\* the value of a numeric primitive type that the bytes just taken hold
numberOf(got, type, signed) ==
  IF got.rd.error # NoError THEN Read(got.rd, Undefined)
  ELSE IF type \in {"float32", "float64"} THEN Read(got.rd, DecodeFloat(got.val))
  ELSE IF ~Decodable(got.val, signed) THEN Read(got.rd, Raw(got.val))
  ELSE IF Len(got.val) = 8 THEN Read(got.rd, Big(DecodeInt(got.val, signed)))
  ELSE Read(got.rd, Num(DecodeInt(got.val, signed)))

rdAligned(rd, width) == rdTake(IF width > 1 THEN rdAlign(rd, width) ELSE rd, width)

rdNumber(rd, type) ==
  numberOf(rdAligned(rd, PRIMITIVE_SIZES[type]), type,
           type \in {"int8", "int16", "int32", "int64"})

rdUint32(rd) == rdNumber(rd, "uint32")
rdSequenceLength(rd) == rdUint32(rd)

\* TextDecoder.decode of UTF-8 bytes into UTF-16 code units (BMP only);
\* a malformed sequence gives U+FFFD
RECURSIVE Utf8Decode(_)
Utf8Decode(bytes) ==
  IF bytes = <<>> THEN <<>>
  ELSE LET b == Head(bytes)
           cont(i) == Len(bytes) >= i /\ bytes[i] >= 128 /\ bytes[i] < 192
       IN  CASE b < 128 -> <<b>> \o Utf8Decode(Tail(bytes))
             [] b >= 194 /\ b < 224 /\ cont(2) ->
                  <<(b - 192) * 64 + (bytes[2] - 128)>> \o Utf8Decode(SubSeq(bytes, 3, Len(bytes)))
             [] b >= 224 /\ b < 240 /\ cont(2) /\ cont(3) ->
                  <<(b - 224) * 4096 + (bytes[2] - 128) * 64 + (bytes[3] - 128)>>
                    \o Utf8Decode(SubSeq(bytes, 4, Len(bytes)))
             [] OTHER -> <<65533>> \o Utf8Decode(Tail(bytes))

\* CdrReader.string: a uint32 length that counts the terminator, then the
\* characters; a length of 0 or 1 is the empty string
stringOf(got) ==
  IF got.rd.error # NoError THEN Read(got.rd, Undefined)
  ELSE Read([got.rd EXCEPT !.offset = @ + 1], Str(Utf8Decode(got.val)))

stringOfLength(len) ==
  IF len.rd.error # NoError THEN Read(len.rd, Undefined)
  ELSE IF len.val.k # "number" THEN Read([len.rd EXCEPT !.error = ErrRange], Undefined)
  ELSE IF len.val.v <= 1
    THEN Read([len.rd EXCEPT !.offset = @ + len.val.v], Str(<<>>))
  ELSE stringOf(rdTake(len.rd, len.val.v - 1))

rdString(rd) == stringOfLength(rdUint32(rd))

(***************************************************************************)
(* MessageReader                                                           *)
(***************************************************************************)
\* the keys of deserializers and of ros1TimeDeserializers
deserializers == PRIMITIVE_WRITERS \cup {"wstring"}

\* the keys of typedArrayDeserializers and of ros1TypedArrayDeserializers
typedArrayDeserializers == PRIMITIVE_ARRAY_WRITERS \cup {"wstring"}

\* { sec: reader.int32(), nanosec: reader.uint32() }, or nsec for ROS 1 time
\* timeOf with sec and the fraction exchanged in the ROS 1 format
timeOfSwapped(sec, frac, useRos1Time) ==
  IF frac.rd.error # NoError THEN Read(frac.rd, Undefined)
  ELSE Read(frac.rd,
            Obj(IF useRos1Time
                THEN [n \in {"sec", "nsec"} |-> IF n = "sec" THEN frac.val ELSE sec.val]
                ELSE [n \in {"sec", "nanosec"} |-> IF n = "sec" THEN sec.val ELSE frac.val]))

timeOf(sec, frac, useRos1Time) ==
  IF frac.rd.error # NoError THEN Read(frac.rd, Undefined)
  ELSE Read(frac.rd,
            Obj(IF useRos1Time
                THEN [n \in {"sec", "nsec"} |-> IF n = "sec" THEN sec.val ELSE frac.val]
                ELSE [n \in {"sec", "nanosec"} |-> IF n = "sec" THEN sec.val ELSE frac.val]))

readTimeAfter(sec, useRos1Time) == timeOf(sec, rdNumber(sec.rd, "uint32"), useRos1Time)

readTime(rd, useRos1Time) == readTimeAfter(rdNumber(rd, "int32"), useRos1Time)

\* deserializers.get(type)(reader), for a type that has a deserializer
boolOf(b) == IF b.rd.error # NoError THEN b ELSE Read(b.rd, Bool(b.val.v # 0))

deserialize(type, rd, useRos1Time) ==
  CASE type = "wstring" -> Read([rd EXCEPT !.error = ErrWstring], Undefined)
    [] type = "bool" -> boolOf(rdNumber(rd, "int8"))
    [] type = "string" -> rdString(rd)
    [] type \in {"time", "duration"} -> readTime(rd, useRos1Time)
    [] OTHER -> rdNumber(rd, type)

\* count elements read one after the other with the scalar deserializer; an
\* element takes at least one byte, so a count beyond the buffer ends in the
\* RangeError of the read that leaves the buffer
RECURSIVE readItems(_, _, _, _, _)
RECURSIVE readItemsAfter(_, _, _, _, _)
readItems(type, rd, useRos1Time, count, acc) ==
  IF count = 0 \/ rd.error # NoError THEN Read(rd, acc)
  ELSE IF count > Len(rd.buffer) THEN Read(rdThrow(rd, ErrRange), acc)
  ELSE readItemsAfter(type, deserialize(type, rd, useRos1Time), useRos1Time, count, acc)

readItemsAfter(type, item, useRos1Time, count, acc) ==
  readItems(type, item.rd, useRos1Time, count - 1, Append(acc, item.val))

arrayOf(items) ==
  IF items.rd.error # NoError THEN Read(items.rd, Undefined)
  ELSE Read(items.rd, Arr(items.val))

\* a typed array over count elements: the bytes must lie in the buffer
typedArrayFrom(type, fits, items) ==
  IF fits.rd.error # NoError THEN Read(fits.rd, Undefined)
  ELSE Read(items.rd, Typed(ClassOf(type), [i \in DOMAIN items.val |-> items.val[i].v]))

\* typedArrayDeserializers.get(type)(reader, count), for a type that has one
deserializeArray(type, rd, useRos1Time, count) ==
  CASE type = "wstring" -> Read(rdThrow(rd, ErrWstring), Undefined)
    [] type \in {"bool", "string", "time", "duration"} ->
         arrayOf(readItems(type, rd, useRos1Time, count, <<>>))
    [] OTHER ->
         typedArrayFrom(type,
                      IF count > Len(rd.buffer) THEN Read(rdThrow(rd, ErrRange), <<>>)
                      ELSE rdTake(IF count > 0 /\ PRIMITIVE_SIZES[type] > 1
                                  THEN rdAlign(rd, PRIMITIVE_SIZES[type]) ELSE rd,
                                  PRIMITIVE_SIZES[type] * count),
                      readItems(type, rd, useRos1Time, count, <<>>))

RECURSIVE readComplexType(_, _, _)
RECURSIVE readFields(_, _, _, _, _)
RECURSIVE readEntries(_, _, _, _, _)
RECURSIVE readEntriesAfter(_, _, _, _, _)
RECURSIVE readFieldsAfter(_, _, _, _)

\* the complex array loop of readComplexType; the element types of the
\* model's arrays take at least one byte each, so a count beyond the buffer
\* ends in a RangeError
readEntries(self, nestedDefinition, rd, count, acc) ==
  IF count = 0 \/ rd.error # NoError THEN Read(rd, acc)
  ELSE IF count > Len(rd.buffer) THEN Read(rdThrow(rd, ErrRange), acc)
  ELSE readEntriesAfter(self, nestedDefinition, readComplexType(self, nestedDefinition, rd),
                         count, acc)

readEntriesAfter(self, nestedDefinition, entry, count, acc) ==
  readEntries(self, nestedDefinition, entry.rd, count - 1, Append(acc, entry.val))

\* the count a sequence length holds
countOf(len) ==
  IF len.rd.error # NoError THEN Read(len.rd, 0)
  ELSE IF len.val.k # "number" THEN Read([len.rd EXCEPT !.error = ErrRange], 0)
  ELSE Read(len.rd, len.val.v)

\* field.arrayLength ?? reader.sequenceLength(): [rd, val] with val a count
readArrayLength(field, rd) ==
  IF field.arrayLength # NoLength THEN Read(rd, field.arrayLength)
  ELSE countOf(rdSequenceLength(rd))

\* msg[field.name] = value
assign(value, field, msg) == Read(value.rd, (field.name :> value.val) @@ msg)

\* msg[field.name] = array
assignArray(array, field, msg) == Read(array.rd, (field.name :> Arr(array.val)) @@ msg)

\* the array loop over len.val entries of a complex type
readEntriesOf(self, field, len) ==
  readEntries(self, self.definitions[field.type], len.rd, len.val, <<>>)

\* deserializeArrayOf that always takes the array deserializers of the
\* {sec, nanosec} format
deserializeArrayOfNative(self, field, len) ==
  deserializeArray(field.type, len.rd, FALSE, len.val)

\* deser(reader, arrayLength)
deserializeArrayOf(self, field, len) ==
  deserializeArray(field.type, len.rd, self.useRos1Time, len.val)

\* readComplexField that takes a type without definition for an empty one
readComplexFieldLenient(self, field, rd, msg) ==
  IF field.type \notin DOMAIN self.definitions
  THEN Read(rd, (field.name :> EmptyObj) @@ msg)
  ELSE IF field.isArray THEN
    assignArray(readEntriesOf(self, field, readArrayLength(field, rd)), field, msg)
  ELSE
    assign(readComplexType(self, self.definitions[field.type], rd), field, msg)

\* the complex branch of the field loop
readComplexField(self, field, rd, msg) ==
  IF field.type \notin DOMAIN self.definitions
  THEN Read([rd EXCEPT !.error = ErrComplex], msg)
  ELSE IF field.isArray THEN
    assignArray(readEntriesOf(self, field, readArrayLength(field, rd)), field, msg)
  ELSE
    assign(readComplexType(self, self.definitions[field.type], rd), field, msg)

\* the primitive array branch of the field loop
readPrimitiveArrayField(self, field, rd, msg) ==
  IF field.type \notin typedArrayDeserializers
  THEN Read([rd EXCEPT !.error = ErrPrimitiveArray], msg)
  ELSE assign(deserializeArrayOf(self, field, readArrayLength(field, rd)), field, msg)

\* readPrimitiveField that leaves out a field without deserializer
readPrimitiveFieldSkipping(self, field, rd, msg) ==
  IF field.type \notin deserializers
  THEN Read(rd, msg)
  ELSE assign(deserialize(field.type, rd, self.useRos1Time), field, msg)

\* the primitive scalar branch of the field loop
readPrimitiveField(self, field, rd, msg) ==
  IF field.type \notin deserializers
  THEN Read([rd EXCEPT !.error = ErrPrimitive], msg)
  ELSE assign(deserialize(field.type, rd, self.useRos1Time), field, msg)

\* readField that decodes constant fields like data fields
readFieldWithConstants(self, field, rd, msg) ==
  IF field.isComplex THEN readComplexField(self, field, rd, msg)
  ELSE IF field.isArray THEN readPrimitiveArrayField(self, field, rd, msg)
  ELSE readPrimitiveField(self, field, rd, msg)

\* the body of the field loop of readComplexType for one field: [rd, val],
\* val the message so far
readField(self, field, rd, msg) ==
  IF field.isConstant THEN Read(rd, msg)
  ELSE IF field.isComplex THEN readComplexField(self, field, rd, msg)
  ELSE IF field.isArray THEN readPrimitiveArrayField(self, field, rd, msg)
  ELSE readPrimitiveField(self, field, rd, msg)

\* the field loop of readComplexType, fields i..Len(definition)
readFields(self, definition, i, rd, msg) ==
  IF i > Len(definition) \/ rd.error # NoError THEN Read(rd, msg)
  ELSE readFieldsAfter(self, definition, i, readField(self, definition[i], rd, msg))

readFieldsAfter(self, definition, i, step) ==
  readFields(self, definition, i + 1, step.rd, step.val)

objectOf(fields) == Read(fields.rd, Obj(fields.val))

\* [rd, val]: the reader after the structure and the decoded object
readComplexType(self, definition, rd) ==
  IF Len(definition) = 0
  THEN Read(rdTake(rd, 1).rd, EmptyObj)
  ELSE objectOf(readFields(self, definition, 1, rd, EmptyObj.v))

\* readMessage(buffer): [value, consumed, error]
resultOf(done) ==
  IF done.rd.error # NoError
  THEN [value |-> Undefined, consumed |-> 0, error |-> done.rd.error]
  ELSE [value |-> done.val, consumed |-> done.rd.offset, error |-> NoError]

readMessage(self, buffer) ==
  resultOf(readComplexType(self, self.rootDefinition, CdrReader(buffer)))

\* isConstantModule without its length test: a definition without fields
\* counts as a module of constants
isConstantModuleAnyLength(def) ==
  \A i \in DOMAIN def.definitions : def.definitions[i].isConstant

isConstantModule(def) ==
  /\ Len(def.definitions) > 0
  /\ \A i \in DOMAIN def.definitions : def.definitions[i].isConstant

\* definitions.find((def) => !isConstantModule(def)): its index, 0 if none
findRoot(defs) ==
  IF \E i \in DOMAIN defs : ~isConstantModule(defs[i])
  THEN CHOOSE i \in DOMAIN defs :
         /\ ~isConstantModule(defs[i])
         /\ \A j \in 1..(i - 1) : isConstantModule(defs[j])
  ELSE 0

\* new MessageReader(definitions, { timeFormat }); timeFormat "" is an
\* options object without the key
MessageReader(defs, timeFormat) ==
  LET root == findRoot(defs)
      format == IF timeFormat = "" THEN "sec,nanosec" ELSE timeFormat
  IN  IF root = 0
      THEN [rootDefinition |-> <<>>, definitions |-> DefinitionMap(<<>>),
            useRos1Time |-> FALSE, error |-> ErrNoRoot]
      ELSE [rootDefinition |-> defs[root].definitions, definitions |-> DefinitionMap(defs),
            useRos1Time |-> format = "sec,nsec", error |-> NoError]

(***************************************************************************)
(* Inputs: definition lists, message values and buffers                    *)
(***************************************************************************)
FieldNames == <<"f1", "f2", "f3", "f4">>

\* a field of a definition without its name
Shape(type, isArray, arrayLength, isComplex, isConstant) ==
  [type |-> type, isArray |-> isArray, arrayLength |-> arrayLength,
   isComplex |-> isComplex, isConstant |-> isConstant]

Named(name, shape) ==
  Field(name, shape.type, shape.isArray, shape.arrayLength, shape.isComplex,
        shape.isConstant, Undefined)

Scalar(type) == Shape(type, FALSE, NoLength, FALSE, FALSE)
Dynamic(type) == Shape(type, TRUE, NoLength, FALSE, FALSE)
Fixed(type, n) == Shape(type, TRUE, n, FALSE, FALSE)
Complex(type) == Shape(type, FALSE, NoLength, TRUE, FALSE)
ComplexDynamic(type) == Shape(type, TRUE, NoLength, TRUE, FALSE)
Constant(type) == Shape(type, FALSE, NoLength, FALSE, TRUE)

\* a definition whose fields are named f1, f2, ... in order
Struct(name, shapes) ==
  Definition(name, [i \in DOMAIN shapes |-> Named(FieldNames[i], shapes[i])])

\* the shapes the generated root definitions are built from
GenericShapes ==
  {Scalar("uint8"), Scalar("string"), Dynamic("int64"), Fixed("float64", 2),
   Complex("Empty"), Constant("int32")}

RECURSIVE SeqsUpTo(_, _)
SeqsUpTo(S, n) ==
  IF n = 0 THEN {<<>>}
  ELSE LET shorter == SeqsUpTo(S, n - 1)
       IN  shorter \cup {Append(q, x) : q \in {t \in shorter : Len(t) = n - 1}, x \in S}

\* the definitions every generated list ends with
Library ==
  <<Struct("Empty", <<>>),
    Struct("Nothing", <<Constant("int32")>>),
    Struct("Custom", <<Scalar("uint8")>>),
    Struct("Stamped", <<Scalar("time")>>)>>

ModuleNames == <<"Constants1", "Constants2", "Constants3", "Constants4">>

\* n modules that hold constants only, as the ros2idl parser emits them
RECURSIVE Preamble(_)
Preamble(n) ==
  IF n = 0 THEN <<>>
  ELSE Append(Preamble(n - 1), Struct(ModuleNames[n], <<Constant("int8"), Constant("int8")>>))

\* modules of constants, a generated root, the library
GeneratedLists ==
  {Preamble(p) \o <<Struct("Root", shapes)>> \o Library :
     p \in 0..MaxPreamble, shapes \in SeqsUpTo(GenericShapes, MaxFields)}

\* schemas of the test suites and of the error cases
CatalogueRoots ==
  {<<Complex("Empty"), Scalar("int32")>>,
   <<Complex("Nothing"), Scalar("int32")>>,
   <<Complex("Nothing")>>,
   <<Scalar("uint8"), Complex("Nothing")>>,
   <<ComplexDynamic("Custom")>>,
   <<ComplexDynamic("Empty")>>,
   <<Fixed("uint8", 3)>>,
   <<Fixed("time", 2)>>,
   <<Scalar("time")>>,
   <<Scalar("uint8"), Dynamic("int32")>>,
   <<Scalar("wstring")>>,
   <<Dynamic("wstring")>>,
   <<Fixed("wstring", 2)>>,
   <<Scalar("uint8"), Scalar("wstring")>>,
   <<Dynamic("time")>>,
   <<Scalar("uint8"), Scalar("duration")>>,
   <<Complex("Stamped")>>,
   <<Scalar("uint8"), Complex("Stamped")>>,
   <<Scalar("uint8"), ComplexDynamic("Stamped")>>,
   <<Scalar("bool"), Dynamic("string")>>,
   <<Scalar("time"), Fixed("duration", 1)>>,
   <<Scalar("int8"), Scalar("uint16")>>,
   <<Scalar("uint32"), Scalar("float32")>>,
   <<Scalar("bool"), Dynamic("uint16")>>}

CatalogueLists ==
  {<<Struct("Root", shapes)>> \o Library : shapes \in CatalogueRoots}
  \cup {<<>>, Preamble(1), Preamble(2), <<Library[2]>>, <<Library[1]>>}

\* definition lists that refer to a complex type no definition of the list has
UnresolvedLists ==
  {<<Struct("Root", <<Complex("Missing")>>)>>,
   <<Struct("Root", <<Scalar("uint8"), ComplexDynamic("Missing")>>)>>,
   <<Struct("Root", <<Constant("int32"), Complex("Missing")>>)>>,
   <<Struct("Root", <<ComplexDynamic("Inner")>>), Struct("Inner", <<Complex("Missing")>>)>>}

\* definition lists with a field of a type that is no primitive type
UnknownLists ==
  {<<Struct("Root", <<Scalar("int128")>>)>>,
   <<Struct("Root", <<Dynamic("int128")>>)>>,
   <<Struct("Root", <<Scalar("uint8"), Fixed("int128", 2)>>)>>,
   <<Struct("Root", <<Scalar("uint8"), Scalar("int128")>>)>>}

\* definition lists in which several definitions share a name
DuplicateLists ==
  {<<Struct("Root", <<Complex("Dup")>>),
     Struct("Dup", <<Scalar("uint8")>>), Struct("Dup", <<Scalar("int32")>>)>>,
   <<Struct("Root", <<ComplexDynamic("Dup")>>),
     Struct("Dup", <<Scalar("int32")>>), Struct("Dup", <<Scalar("string")>>),
     Struct("Dup", <<Scalar("uint8")>>)>>}

\* a scalar primitive field with a declared default
Defaulted(name, type, defaultValue) ==
  Field(name, type, FALSE, NoLength, FALSE, FALSE, defaultValue)

\* definition lists whose fields declare defaults, or none
DefaultLists ==
  {<<Definition("Root", <<Defaulted("f1", "uint8", Num(7)),
                          Defaulted("f2", "string", Str(<<104, 105>>))>>)>>,
   <<Definition("Root", <<Defaulted("f1", "bool", Bool(TRUE)),
                          Defaulted("f2", "int64", Big(5))>>)>>,
   <<Definition("Root", <<Defaulted("f1", "int16", Num(-2)),
                          Defaulted("f2", "float64", Num(1))>>)>>,
   <<Definition("Root", <<Defaulted("f1", "time", Undefined),
                          Defaulted("f2", "uint64", Undefined)>>)>>,
   <<Definition("Root", <<Defaulted("f1", "bool", Undefined),
                          Defaulted("f2", "string", Undefined)>>)>>,
   <<Definition("Root", <<Field("f1", "int32", TRUE, NoLength, FALSE, FALSE,
                                Arr(<<Num(1), Num(2)>>))>>)>>,
   <<Definition("Root", <<Field("f1", "string", TRUE, NoLength, FALSE, FALSE,
                                Arr(<<Str(<<97>>)>>))>>)>>}

DefinitionLists ==
  GeneratedLists \cup CatalogueLists \cup UnresolvedLists \cup UnknownLists
  \cup DuplicateLists \cup DefaultLists

RECURSIVE Repeat(_, _)
Repeat(x, n) == IF n <= 0 THEN <<>> ELSE <<x>> \o Repeat(x, n - 1)

Stamp(frac) == Obj([n \in {"sec", frac} |-> IF n = "sec" THEN Num(1) ELSE Num(2)])

\* the values a message may hold for a field of a primitive type
PrimitiveValues(field) ==
  LET type == field.type
      n == field.arrayLength
  IN  CASE ~field.isArray /\ type \in {"string", "wstring"} ->
             {Undefined, Str(<<104, 105>>), Str(<<233>>)}
        [] ~field.isArray /\ type = "bool" -> {Undefined, Bool(TRUE)}
        [] ~field.isArray /\ type \in {"time", "duration"} ->
             {Undefined, Stamp("nsec"), Stamp("nanosec")}
        [] ~field.isArray /\ type \in {"int64", "uint64"} -> {Undefined, Big(42), Num(42)}
        [] ~field.isArray -> {Undefined, Num(123)}
        [] type \in {"string", "wstring"} ->
             {Undefined, Arr(<<>>), Arr(Repeat(Str(<<97>>), IF n = NoLength THEN 1 ELSE n))}
        [] type \in {"time", "duration"} ->
             {Undefined, Arr(<<>>), Arr(Repeat(Stamp("nsec"), IF n = NoLength THEN 1 ELSE n))}
        [] type \notin DOMAIN TypedArrayOf -> {Undefined, Arr(<<>>)}
        [] type = "bool" -> {Undefined, Arr(<<Bool(TRUE)>>)}
        [] n = NoLength ->
             {Undefined, Arr(<<>>), Typed(ClassOf(type), <<3, 7>>),
              Typed(IF type = "float64" THEN "Float32Array" ELSE "Float64Array", <<3>>),
              Str(<<97, 98>>)}
        [] OTHER -> {Undefined, Arr(<<>>), Typed(ClassOf(type), Repeat(3, n)),
                     Arr(Repeat(Num(3), n)), Typed(ClassOf(type), Repeat(3, n - 1)),
                     Arr(Repeat(Num(3), n + 1))}

RECURSIVE Messages(_, _)
RECURSIVE FieldValues(_, _)

\* the values a message may hold for a field
FieldValues(map, field) ==
  IF ~field.isComplex THEN PrimitiveValues(field)
  ELSE LET nested == IF field.type \in DOMAIN map
                     THEN Messages(map, map[field.type])
                     ELSE {EmptyObj}
       IN  IF field.isArray
           THEN {Undefined, Arr(<<>>)} \cup
                {Arr(Repeat(m, IF field.arrayLength = NoLength THEN 2 ELSE field.arrayLength)) :
                   m \in nested}
           ELSE {Undefined} \cup nested

\* the message objects for a list of fields: one property per data field
Messages(map, fields) ==
  LET data == {i \in DOMAIN fields : ~fields[i].isConstant}
      names == {fields[i].name : i \in data}
      fieldOf(n) == fields[CHOOSE i \in data : fields[i].name = n]
      values == UNION {FieldValues(map, fields[i]) : i \in data}
  IN  {Obj(f) : f \in {g \in [names -> values] :
                         \A n \in names : g[n] \in FieldValues(map, fieldOf(n))}}

\* the messages written with a codec of these definitions: those of the first
\* definition that is no module of constants
MessagesFor(defs) ==
  IF findRoot(defs) = 0 THEN {EmptyObj}
  ELSE Messages(DefinitionMap(defs), defs[findRoot(defs)].definitions)

\* payload bytes: every aligned uint32 in them is a small count
PayloadA(n) == [i \in 1..n |-> IF i % 4 = 1 THEN 1 + ((i \div 4) % 3) ELSE 0]
PayloadB(n) == [i \in 1..n |-> IF i > 4 /\ i % 4 = 1 THEN 1 + ((i \div 4) % 3) ELSE 0]

\* payload lengths that hold a dynamic array of one time and two times in a row
LongPayloads == {12, 16}

Buffers ==
  {Header \o PayloadA(n) : n \in (0..MaxPayload) \cup LongPayloads}
  \cup {Header \o PayloadB(n) : n \in 0..MaxPayload}
  \cup {<<0, 1>>}

TimeFormats == {"", "sec,nanosec", "sec,nsec"}

(***************************************************************************)
(* The state machine: one definition list, the codecs built from it, and   *)
(* the call made on them with what it returned.  A codec assigns its       *)
(* fields in the constructor only, so a call starts from the same codec    *)
(* whatever was called before; a run of the model makes one call, and may  *)
(* then hand the array a writeMessage returned to readMessage.             *)
(***************************************************************************)
None == [error |-> "none"]

Call(op, message, buffer, size, data, value, consumed, error) ==
  [op |-> op, message |-> message, buffer |-> buffer, size |-> size, data |-> data,
   value |-> value, consumed |-> consumed, error |-> error]

NoCall == Call("none", Undefined, <<>>, 0, <<>>, Undefined, 0, NoError)

Init ==
  /\ definitions \in DefinitionLists
  /\ writer = None
  /\ reader = None
  /\ call = NoCall

NewMessageWriter ==
  /\ writer = None
  /\ writer' = MessageWriter(definitions)
  /\ UNCHANGED <<definitions, reader, call>>

NewMessageReader ==
  /\ reader = None
  /\ \E timeFormat \in TimeFormats : reader' = MessageReader(definitions, timeFormat)
  /\ UNCHANGED <<definitions, writer, call>>

\* a call of calculateByteSize, whatever was called before
CalculateByteSizeCall ==
  /\ writer # None /\ writer.error = NoError
  /\ \E message \in MessagesFor(definitions) :
       LET r == calculateByteSize(writer, message)
       IN  call' = Call("calculateByteSize", message, <<>>,
                        IF r.error = NoError THEN r.offset ELSE 0, <<>>, Undefined, 0, r.error)
  /\ UNCHANGED <<definitions, writer, reader>>

\* a call of writeMessage that replaces the writer's root by the definition
\* it wrote last
WriteMessageCallCaching ==
  /\ writer # None /\ writer.error = NoError
  /\ \E message \in MessagesFor(definitions) :
       LET r == writeMessage(writer, message)
       IN  call' = Call("writeMessage", message, <<>>, r.size, r.data, Undefined, 0, r.error)
  /\ writer' = [writer EXCEPT !.rootDefinition = <<>>]
  /\ UNCHANGED <<definitions, reader>>

\* a call of writeMessage, whatever was called before
WriteMessageCall ==
  /\ writer # None /\ writer.error = NoError
  /\ \E message \in MessagesFor(definitions) :
       LET r == writeMessage(writer, message)
       IN  call' = Call("writeMessage", message, <<>>, r.size, r.data, Undefined, 0, r.error)
  /\ UNCHANGED <<definitions, writer, reader>>

\* a call of readMessage on a reader that keeps the read offset of its last
\* call
ReadMessageCallResuming ==
  /\ reader # None /\ reader.error = NoError
  /\ \E buffer \in Buffers :
       LET from == IF call.consumed > 4 THEN call.consumed ELSE 4
           r == resultOf(readComplexType(reader, reader.rootDefinition,
                                         [CdrReader(buffer) EXCEPT !.offset = from]))
       IN  call' = Call("readMessage", Undefined, buffer, 0, <<>>, r.value, r.consumed, r.error)
  /\ UNCHANGED <<definitions, writer, reader>>

\* a call of readMessage, whatever was called before
ReadMessageCall ==
  /\ reader # None /\ reader.error = NoError
  /\ \E buffer \in Buffers :
       LET r == readMessage(reader, buffer)
       IN  call' = Call("readMessage", Undefined, buffer, 0, <<>>, r.value, r.consumed, r.error)
  /\ UNCHANGED <<definitions, writer, reader>>

\* the first call made on the codecs
CalculateByteSize == call = NoCall /\ CalculateByteSizeCall
WriteMessage == call = NoCall /\ WriteMessageCall
ReadMessage == call = NoCall /\ ReadMessageCall

\* readMessage on the array the last writeMessage returned
ReadWritten ==
  /\ reader # None /\ reader.error = NoError
  /\ call.op = "writeMessage" /\ call.error = NoError
  /\ LET r == readMessage(reader, call.data)
     IN  call' = Call("readWritten", call.message, call.data, call.size, call.data,
                      r.value, r.consumed, r.error)
  /\ UNCHANGED <<definitions, writer, reader>>

Next ==
  \/ NewMessageWriter
  \/ NewMessageReader
  \/ CalculateByteSize
  \/ WriteMessage
  \/ ReadMessage
  \/ ReadWritten

Spec == Init /\ [][Next]_vars

\* the definition lists of the runs that make calls one after the other
CallLists == CatalogueLists \cup UnresolvedLists \cup DefaultLists

InitCalls ==
  /\ definitions \in CallLists
  /\ writer = None
  /\ reader = None
  /\ call = NoCall

\* any sequence of calls on the codecs
NextCalls ==
  \/ NewMessageWriter
  \/ NewMessageReader
  \/ CalculateByteSizeCall
  \/ WriteMessageCall
  \/ ReadMessageCall
  \/ ReadWritten

SpecCalls == InitCalls /\ [][NextCalls]_vars

\* the byte widths padding is called with: 4 for the lengths, time and
\* duration, and the sizes of PRIMITIVE_SIZES
ByteWidths == {4} \cup {PRIMITIVE_SIZES[t] : t \in DOMAIN PRIMITIVE_SIZES}

\* padding on its own: an offset behind the header and a byte width
InitPadding ==
  /\ definitions = <<>>
  /\ writer = None
  /\ reader = None
  /\ \E offset \in 4..MaxOffset, byteWidth \in ByteWidths :
       call = [op |-> "padding", offset |-> offset, byteWidth |-> byteWidth,
               returned |-> FALSE, result |-> 0]

Padding ==
  /\ call.op = "padding" /\ ~call.returned
  /\ call' = [call EXCEPT !.returned = TRUE,
                          !.result = padding(call.offset, call.byteWidth)]
  /\ UNCHANGED <<definitions, writer, reader>>

SpecPadding == InitPadding /\ [][Padding]_vars

\* the lengths of the output arrays handed to writeMessage
Capacities == {0, 4, 8, 12, 16, 32}

\* writeMessage(message, output); the call holds the output as its buffer
WriteMessageInto ==
  /\ writer # None /\ writer.error = NoError
  /\ call = NoCall
  /\ \E message \in MessagesFor(definitions), capacity \in Capacities :
       LET r == writeMessageInto(writer, message, capacity)
       IN  call' = Call("writeMessageInto", message, Zeros(capacity), 0, r.data,
                        Undefined, 0, r.error)
  /\ UNCHANGED <<definitions, writer, reader>>

NextOutput ==
  \/ NewMessageWriter
  \/ WriteMessageInto

SpecOutput == InitCalls /\ [][NextOutput]_vars

(***************************************************************************)
(* The recursion of byteSize, write and #readComplexType step by step: a   *)
(* call is a stack of frames, one per invocation, each at a field of its   *)
(* definition and, inside an array of a complex type, at an element.       *)
(* calculateByteSize runs byteSize, writeMessage runs byteSize and then    *)
(* write, readMessage runs #readComplexType, for which the counts and the  *)
(* end of the buffer are whatever the buffer holds.                        *)
(***************************************************************************)
ErrStack == "RangeError: Maximum call stack size exceeded"

\* Root -> L1 -> ... -> Ln, each through a scalar field of a complex type
Chain(n) ==
  [d \in 1..(n + 1) |->
     Definition(IF d = 1 THEN "Root" ELSE ModuleNames[d - 1],
                IF d = n + 1 THEN <<Named("f1", Scalar("uint8"))>>
                ELSE <<Named("f1", Scalar("uint8")), Named("f2", Complex(ModuleNames[d]))>>)]

\* definition lists by the shape of their graph of references
DepthLists ==
  {Chain(n) : n \in 0..(MaxDepth - 1)}
  \cup {<<Struct("Root", <<ComplexDynamic("Custom"), Fixed("uint8", 2)>>), Library[3]>>,
        <<Struct("Root", <<Constant("int32"), Shape("Custom", TRUE, 2, TRUE, FALSE)>>),
          Library[3]>>,
        <<Struct("Root", <<Complex("Missing")>>)>>,
        <<Struct("Root", <<Scalar("uint8"), Complex("Root")>>)>>,
        <<Struct("Root", <<Complex("Node")>>), Struct("Node", <<Complex("Node")>>)>>}

\* messages without any field, and with arrays of objects without fields
DepthMessages ==
  {EmptyObj} \cup {Obj([n \in {"f1", "f2"} |-> Arr(Repeat(EmptyObj, k))]) : k \in 1..MaxCount}

Frame(definition, message) ==
  [definition |-> definition, i |-> 1, element |-> 0, count |-> NoLength,
   message |-> message]

Traversal(op, pass, definition, message) ==
  [op |-> op, pass |-> pass, message |-> message,
   stack |-> <<Frame(definition, message)>>, status |-> "running", error |-> NoError]

InitDepth ==
  /\ definitions \in DepthLists
  /\ writer = MessageWriter(definitions)
  /\ reader = MessageReader(definitions, "")
  /\ \/ \E op \in {"calculateByteSize", "writeMessage"}, message \in DepthMessages :
          call = Traversal(op, "byteSize", writer.rootDefinition, message)
     \/ call = Traversal("readMessage", "read", reader.rootDefinition, Undefined)

Running == call.status = "running"
Reading == call.op = "readMessage"
top == call.stack[Len(call.stack)]
AtField == Running /\ top.i <= Len(top.definition)
AtComplex ==
  AtField /\ top.definition[top.i].isComplex /\ ~top.definition[top.i].isConstant
Resolved == top.definition[top.i].type \in DOMAIN writer.definitions
Thrown(e) == [call EXCEPT !.status = "thrown", !.error = e]
Moved(frame) == [call EXCEPT !.stack[Len(call.stack)] = frame]
Pushed(frame, entry) ==
  [call EXCEPT !.stack = Append([@ EXCEPT ![Len(@)] = frame],
                                Frame(writer.definitions[top.definition[top.i].type], entry))]

\* the end of the field loop: the invocation returns; the reader first
\* takes the byte of a definition without fields
Return ==
  /\ Running /\ top.i > Len(top.definition)
  /\ \E inBuffer \in IF Reading /\ top.definition = <<>> THEN BOOLEAN ELSE {TRUE} :
       call' = IF ~inBuffer THEN Thrown(ErrRange)
               ELSE IF Len(call.stack) > 1
               THEN [call EXCEPT !.stack = SubSeq(@, 1, Len(@) - 1)]
               ELSE IF call.op = "writeMessage" /\ call.pass = "byteSize"
               THEN Traversal("writeMessage", "write", writer.rootDefinition, call.message)
               ELSE [call EXCEPT !.status = "returned", !.stack = <<>>]
  /\ UNCHANGED <<definitions, writer, reader>>

\* a constant is passed over; a primitive field is sized, written or read
Skip ==
  /\ AtField /\ ~AtComplex
  /\ \E inBuffer \in IF Reading /\ ~top.definition[top.i].isConstant
                      THEN BOOLEAN ELSE {TRUE} :
       call' = IF ~inBuffer THEN Thrown(ErrRange)
               ELSE IF /\ ~top.definition[top.i].isConstant
                       /\ top.definition[top.i].type \notin PRIMITIVE_WRITERS
               THEN Thrown(ErrPrimitive)
               ELSE Moved([top EXCEPT !.i = @ + 1])
  /\ UNCHANGED <<definitions, writer, reader>>

\* getDefinition throws for a type without definition
GetDefinitionThrows ==
  /\ AtComplex /\ ~Resolved
  /\ call' = Thrown(ErrComplex)
  /\ UNCHANGED <<definitions, writer, reader>>

\* the length of an array of a complex type: field.arrayLength, else the
\* length of the value or the count in the buffer
Count ==
  /\ AtComplex /\ Resolved
  /\ top.definition[top.i].isArray /\ top.count = NoLength
  /\ \E n \in IF top.definition[top.i].arrayLength # NoLength
               THEN {top.definition[top.i].arrayLength}
               ELSE IF Reading THEN 0..MaxCount
               ELSE {fieldLength(Prop(top.message, top.definition[top.i].name))},
        inBuffer \in IF Reading /\ top.definition[top.i].arrayLength = NoLength
                      THEN BOOLEAN ELSE {TRUE} :
       call' = IF inBuffer THEN Moved([top EXCEPT !.count = n]) ELSE Thrown(ErrRange)
  /\ UNCHANGED <<definitions, writer, reader>>

\* the next entry of the array, or the value of the field, or {} in its
\* place
entryOf(frame) ==
  LET nestedMessage == Prop(frame.message, frame.definition[frame.i].name)
  IN  IF frame.definition[frame.i].isArray
      THEN entryAt(nestedMessage, frame.element + 1, EmptyObj)
      ELSE IF IsNullish(nestedMessage) THEN EmptyObj ELSE nestedMessage

\* whether the field loop has another invocation to make at its field
HasEntry ==
  /\ AtComplex /\ Resolved
  /\ top.definition[top.i].isArray => (top.count # NoLength /\ top.element < top.count)

\* Enter that makes no invocation for a field the message has no value for
EnterIfPresent ==
  /\ HasEntry /\ Len(call.stack) < MaxStack
  /\ call' = IF IsNullish(Prop(top.message, top.definition[top.i].name)) /\ ~Reading
             THEN Moved([top EXCEPT !.i = @ + 1, !.element = 0, !.count = NoLength])
             ELSE IF top.definition[top.i].isArray
             THEN Pushed([top EXCEPT !.element = @ + 1], entryOf(top))
             ELSE Pushed([top EXCEPT !.i = @ + 1], entryOf(top))
  /\ UNCHANGED <<definitions, writer, reader>>

\* the recursive invocation for a field of a complex type or for the next
\* element of an array of one
Enter ==
  /\ HasEntry /\ Len(call.stack) < MaxStack
  /\ call' = IF top.definition[top.i].isArray
             THEN Pushed([top EXCEPT !.element = @ + 1], entryOf(top))
             ELSE Pushed([top EXCEPT !.i = @ + 1], entryOf(top))
  /\ UNCHANGED <<definitions, writer, reader>>

\* the invocation for which the call stack has no room
Overflow ==
  /\ HasEntry /\ Len(call.stack) = MaxStack
  /\ call' = Thrown(ErrStack)
  /\ UNCHANGED <<definitions, writer, reader>>

\* the end of the loop over the elements of an array
Leave ==
  /\ AtComplex /\ Resolved
  /\ top.definition[top.i].isArray /\ top.count # NoLength /\ top.element = top.count
  /\ call' = Moved([top EXCEPT !.i = @ + 1, !.element = 0, !.count = NoLength])
  /\ UNCHANGED <<definitions, writer, reader>>

NextDepth ==
  \/ Return
  \/ Skip
  \/ GetDefinitionThrows
  \/ Count
  \/ Enter
  \/ Overflow
  \/ Leave

\* an invocation that can take a step takes it
SpecDepth == InitDepth /\ [][NextDepth]_vars /\ WF_vars(NextDepth)

(***************************************************************************)
(* Properties                                                              *)
(***************************************************************************)
\* the fields of a definition that are no constants
DataFields(fields) == {i \in DOMAIN fields : ~fields[i].isConstant}

\* a definition that has fields and whose fields are all constants
OnlyConstants(def) == def.definitions # <<>> /\ DataFields(def.definitions) = {}

WriterBuilt == writer # None /\ writer.error = NoError
ReaderBuilt == reader # None /\ reader.error = NoError
Wrote == call.op = "writeMessage" /\ call.error = NoError

WriterRootHasData ==
  WriterBuilt =>
    \A i \in DOMAIN definitions :
      (/\ DataFields(definitions[i].definitions) # {}
       /\ \A j \in 1..(i - 1) : OnlyConstants(definitions[j]))
      => writer.rootDefinition = definitions[i].definitions

\* C4: the reader's root is the first definition in list order that is not a
\* module of constants, a module of constants being a definition with at
\* least one field and only constant fields; a definition without fields is
\* eligible.
ReaderRootIsFirstNonConstantModule ==
  ReaderBuilt =>
    \E i \in DOMAIN definitions :
      /\ reader.rootDefinition = definitions[i].definitions
      /\ ~OnlyConstants(definitions[i])
      /\ \A j \in 1..(i - 1) : OnlyConstants(definitions[j])

\* C4 witness: a reader whose root is a definition without fields that comes
\* after a skipped module of constants
ReaderSkippedConstantsForEmptyRoot ==
  /\ ReaderBuilt
  /\ Len(definitions) >= 2
  /\ OnlyConstants(definitions[1])
  /\ definitions[2].definitions = <<>>
  /\ reader.rootDefinition = <<>>

\* C5: constructing a reader or a writer fails exactly when the list is empty
\* or every definition holds constants only.
NoRoot == \A i \in DOMAIN definitions : OnlyConstants(definitions[i])

ConstructionFailsIffNoRoot ==
  /\ writer # None => (writer.error # NoError <=> NoRoot)
  /\ reader # None => (reader.error # NoError <=> NoRoot)

\* the value readMessage is to return for a primitive that was written from
\* `value`: the value itself or, when it is absent, the declared default or
\* the zero of the type, with the time field named by the reader's format
ExpectedScalar(type, value, defaultValue, useRos1Time) ==
  LET given == IF IsNullish(value) THEN defaultValue ELSE value
      frac == IF ~IsNullish(Prop(given, "nsec")) THEN Prop(given, "nsec")
              ELSE Prop(given, "nanosec")
  IN  CASE type = "string" -> IF given.k = "string" THEN given ELSE Str(<<>>)
        [] type = "bool" -> Bool(Truthy(given))
        [] type \in {"time", "duration"} ->
             Obj(IF useRos1Time
                 THEN [n \in {"sec", "nsec"} |->
                         Num(ToNumber(IF n = "sec" THEN Prop(given, "sec") ELSE frac))]
                 ELSE [n \in {"sec", "nanosec"} |->
                         Num(ToNumber(IF n = "sec" THEN Prop(given, "sec") ELSE frac))])
        [] type \in {"int64", "uint64"} -> Big(IF IsNullish(given) THEN 0 ELSE given.v)
        [] OTHER -> Num(IF IsNullish(given) THEN 0 ELSE given.v)

RECURSIVE Expected(_, _, _, _)

\* the value readMessage is to return for one field
ExpectedField(map, field, value, useRos1Time) ==
  LET n == IF field.arrayLength = NoLength THEN LengthOf(value) ELSE field.arrayLength
      given == IF IsNullish(value) /\ field.defaultValue.k = "array"
               THEN field.defaultValue ELSE value
      item(i) == ExpectedScalar(field.type, entryAt(given, i, Undefined), Undefined, useRos1Time)
  IN  CASE field.isComplex /\ ~field.isArray ->
             Expected(map, map[field.type],
                      IF IsNullish(value) THEN EmptyObj ELSE value, useRos1Time)
        [] field.isComplex ->
             Arr([i \in 1..n |->
                    Expected(map, map[field.type], entryAt(value, i, EmptyObj), useRos1Time)])
        [] ~field.isArray ->
             ExpectedScalar(field.type, value, field.defaultValue, useRos1Time)
        [] field.type \in DOMAIN TypedArrayOf \ {"bool"} ->
             Typed(ClassOf(field.type), [i \in 1..n |-> item(i).v])
        [] OTHER -> Arr([i \in 1..n |-> item(i)])

\* the object readMessage is to return for a message written from `message`
Expected(map, fields, message, useRos1Time) ==
  Obj([name \in {fields[i].name : i \in DataFields(fields)} |->
         LET field == fields[CHOOSE i \in DataFields(fields) : fields[i].name = name]
         IN  ExpectedField(map, field, Prop(message, name), useRos1Time)])

RECURSIVE Fits(_, _, _)

\* a value that fits its field: of a supported type, a fixed-length array
\* absent or of the declared length
FitsField(map, field, value) ==
  LET lengthFits == field.arrayLength = NoLength \/ LengthOf(value) = field.arrayLength
  IN  CASE IsNullish(value) ->
             IF field.isComplex
             THEN field.type \in DOMAIN map /\ Fits(map, map[field.type], EmptyObj)
             ELSE field.type \in PRIMITIVE_WRITERS
        [] field.isComplex /\ ~field.isArray ->
             field.type \in DOMAIN map /\ Fits(map, map[field.type], value)
        [] field.isComplex ->
             /\ field.type \in DOMAIN map
             /\ value.k = "array" /\ lengthFits
             /\ \A i \in DOMAIN value.v : Fits(map, map[field.type], value.v[i])
        [] field.isArray ->
             field.type \in PRIMITIVE_WRITERS /\ value.k \in {"array", "typed"} /\ lengthFits
        [] OTHER -> field.type \in PRIMITIVE_WRITERS

Fits(map, fields, message) ==
  \A i \in DataFields(fields) : FitsField(map, fields[i], Prop(message, fields[i].name))

\* C2: a reader built from the same definitions decodes what writeMessage(v)
\* returned, without error, into a value equal to v up to declared defaults,
\* typed arrays for primitive arrays and the time field name of the reader's
\* format; this covers definitions with a nested type without data fields.
RoundTrip ==
  (/\ call.op = "readWritten"
   /\ Fits(reader.definitions, reader.rootDefinition, call.message))
  => /\ call.error = NoError
     /\ call.value = Expected(reader.definitions, reader.rootDefinition, call.message,
                              reader.useRos1Time)

\* a definition of the codec without data fields
IsEmptyType(map, field) ==
  /\ field.isComplex /\ ~field.isArray /\ ~field.isConstant
  /\ field.type \in DOMAIN map
  /\ DataFields(map[field.type]) = {}

IsScalarOf(field, type) ==
  ~field.isComplex /\ ~field.isArray /\ ~field.isConstant /\ field.type = type

\* C6: writeMessage emits one byte 0x00 for a structure without data fields
\* and calculateByteSize counts it: a root without data fields gives the
\* header and one zero byte, and an int32 after a nested empty type starts at
\* payload offset 4.
WriterPadsEmptyStructure ==
  Wrote =>
    LET root == writer.rootDefinition
    IN  /\ DataFields(root) = {}
           => call.data = Header \o <<0>> /\ call.size = 5
        /\ (Len(root) = 2 /\ IsEmptyType(writer.definitions, root[1])
            /\ IsScalarOf(root[2], "int32"))
           => /\ call.size = 12
              /\ call.data = Header \o <<0, 0, 0, 0>>
                               \o LEBytes(ToNumber(Prop(call.message, root[2].name)), 4)

\* C7: for a definition without data fields, with no fields at all or with
\* constants only, at the root or nested, readMessage takes exactly one
\* byte and yields an empty object.
ReaderSkipsEmptyStructure ==
  (call.op = "readMessage" /\ Len(call.buffer) >= 12) =>
    LET root == reader.rootDefinition
    IN  /\ DataFields(root) = {}
           => call.error = NoError /\ call.consumed = 5 /\ call.value = EmptyObj
        /\ (Len(root) = 1 /\ IsEmptyType(reader.definitions, root[1]))
           => /\ call.error = NoError /\ call.consumed = 5
              /\ Prop(call.value, root[1].name) = EmptyObj
        /\ (Len(root) = 2 /\ IsEmptyType(reader.definitions, root[1])
            /\ IsScalarOf(root[2], "int32"))
           => /\ call.error = NoError /\ call.consumed = 12
              /\ Prop(call.value, root[1].name) = EmptyObj
              /\ Prop(call.value, root[2].name)
                   = Num(DecodeInt(SubSeq(call.buffer, 9, 12), TRUE))

\* a root that is one fixed-length array of a numeric primitive type
IsFixedArrayRoot(root) ==
  /\ Len(root) = 1
  /\ root[1].isArray /\ root[1].arrayLength # NoLength
  /\ ~root[1].isComplex /\ ~root[1].isConstant
  /\ root[1].type \in DOMAIN PRIMITIVE_SIZES

\* C8: for a fixed-length array field of length N, writeMessage fails when
\* the supplied array or typed array has a length other than N and succeeds
\* when it has exactly N elements.
FixedArrayLengthChecked ==
  (call.op = "writeMessage" /\ IsFixedArrayRoot(writer.rootDefinition)) =>
    LET field == writer.rootDefinition[1]
        value == Prop(call.message, field.name)
    IN  value.k \in {"array", "typed"}
        => (call.error = NoError <=> Len(value.v) = field.arrayLength)

\* C9: when the message has no value for a fixed-length primitive array of
\* length N and element width w, writeMessage emits N zero elements: the
\* output of a schema with only that field has 4 + N * w bytes.
AbsentFixedArrayIsZeroFilled ==
  (call.op = "writeMessage" /\ IsFixedArrayRoot(writer.rootDefinition)) =>
    LET field == writer.rootDefinition[1]
        bytes == field.arrayLength * PRIMITIVE_SIZES[field.type]
    IN  IsNullish(Prop(call.message, field.name))
        => call.error = NoError /\ call.data = Header \o Zeros(bytes)

HasWstring(root) ==
  \E i \in DataFields(root) : ~root[i].isComplex /\ root[i].type = "wstring"

\* C10: for a schema with a wstring field, scalar or array, writeMessage and
\* readMessage both fail with the error "wstring is implementation-defined
\* and therefore not supported".
WstringRejected ==
  /\ (call.op = "writeMessage" /\ HasWstring(writer.rootDefinition))
     => call.error = ErrWstring
  /\ (call.op = "readMessage" /\ HasWstring(reader.rootDefinition) /\ Len(call.buffer) >= 12)
     => call.error = ErrWstring

RECURSIVE Renamed(_, _)

\* the value with the fraction of every {sec, nsec} or {sec, nanosec} object
\* named frac
Renamed(value, frac) ==
  CASE value.k = "object" ->
         IF DOMAIN value.v \in {{"sec", "nsec"}, {"sec", "nanosec"}}
         THEN Obj([n \in {"sec", frac} |->
                     IF n = "sec" THEN value.v["sec"]
                     ELSE IF "nsec" \in DOMAIN value.v THEN value.v["nsec"]
                     ELSE value.v["nanosec"]])
         ELSE Obj([n \in DOMAIN value.v |-> Renamed(value.v[n], frac)])
    [] value.k = "array" -> Arr([i \in DOMAIN value.v |-> Renamed(value.v[i], frac)])
    [] OTHER -> value

IsTimeType(type) == type \in {"time", "duration"}

\* C11: a reader with the time format "sec,nanosec" and one with "sec,nsec"
\* built from the same definitions take the same bytes from the same buffer
\* and return values that are equal once nanosec is renamed to nsec; sec and
\* the fraction are the same numbers.
TimeFormatInvariant ==
  call.op = "readMessage" =>
    LET other == readMessage(MessageReader(definitions,
                                           IF reader.useRos1Time THEN "sec,nanosec"
                                           ELSE "sec,nsec"),
                             call.buffer)
    IN  /\ other.error = call.error
        /\ other.consumed = call.consumed
        /\ Renamed(other.value, "nsec") = Renamed(call.value, "nsec")

\* C11 witness: a dynamic array of time decoded in the ROS 1 format
Ros1TimeArrayDecoded ==
  /\ call.op = "readMessage" /\ call.error = NoError
  /\ reader.useRos1Time
  /\ Len(reader.rootDefinition) = 1
  /\ reader.rootDefinition[1].isArray /\ reader.rootDefinition[1].arrayLength = NoLength
  /\ IsTimeType(reader.rootDefinition[1].type)
  /\ Prop(call.value, "f1") = Arr(<<Obj([n \in {"sec", "nsec"} |->
                                          IF n = "sec" THEN Num(2) ELSE Num(3)])>>)

RECURSIVE TimeNames(_)

\* the sets of property names of the time objects of a decoded value
TimeNames(value) ==
  CASE value.k = "object" ->
         IF "sec" \in DOMAIN value.v THEN {DOMAIN value.v}
         ELSE UNION {TimeNames(value.v[n]) : n \in DOMAIN value.v}
    [] value.k = "array" -> UNION {TimeNames(value.v[i]) : i \in DOMAIN value.v}
    [] OTHER -> {}

TimeNamingsWriteSameBytes ==
  call.op = "writeMessage" =>
    /\ writeMessage(writer, Renamed(call.message, "nsec"))
         = writeMessage(writer, Renamed(call.message, "nanosec"))
    /\ Renamed(call.message, "nsec") = call.message
       => writeMessage(writer, Renamed(call.message, "nanosec")).data = call.data
    /\ (Len(writer.rootDefinition) = 2
        /\ IsScalarOf(writer.rootDefinition[1], "uint8")
        /\ IsScalarOf(writer.rootDefinition[2], "duration")
        /\ Prop(call.message, "f2") \in {Stamp("nsec"), Stamp("nanosec")})
       => /\ call.error = NoError
          /\ call.data = Header \o LEBytes(ToNumber(Prop(call.message, "f1")), 1)
                           \o Zeros(3) \o LEBytes(1, 4) \o LEBytes(2, 4)

\* C13 witness: a duration after a uint8 written from a {sec, nanosec} value
NanosecDurationWritten ==
  /\ Wrote
  /\ Len(writer.rootDefinition) = 2
  /\ IsScalarOf(writer.rootDefinition[2], "duration")
  /\ Prop(call.message, "f2") = Stamp("nanosec")
  /\ Len(call.data) = 16

\* a data field of a complex type that the codec's map does not hold
Unresolved(map, field) ==
  ~field.isConstant /\ field.isComplex /\ field.type \notin DOMAIN map

HasUnresolved(defs) ==
  \E d \in DOMAIN defs : \E i \in DOMAIN defs[d].definitions :
    Unresolved(DefinitionMap(defs), defs[d].definitions[i])

\* a root of one dynamic array of a resolvable type whose definition holds
\* an unresolved reference
UnresolvedBehindArray(map, root) ==
  /\ Len(root) = 1
  /\ root[1].isComplex /\ root[1].isArray /\ root[1].arrayLength = NoLength
  /\ root[1].type \in DOMAIN map
  /\ \E i \in DOMAIN map[root[1].type] : Unresolved(map, map[root[1].type][i])

\* C14: a reference to a complex type that is not in the definition list
\* leaves construction alone; calculateByteSize, writeMessage and readMessage
\* fail when they reach the referring data field, also for an array without
\* elements, and succeed when they reach resolvable types only.
UnresolvedTypeFailsLazily ==
  /\ (HasUnresolved(definitions) /\ writer # None) => writer.error = NoError
  /\ (HasUnresolved(definitions) /\ reader # None) => reader.error = NoError
  /\ (call.op \in {"calculateByteSize", "writeMessage"}
      /\ \E i \in DOMAIN writer.rootDefinition :
           Unresolved(writer.definitions, writer.rootDefinition[i]))
     => call.error = ErrComplex /\ call.data = <<>>
  /\ (call.op = "readMessage"
      /\ \E i \in DOMAIN reader.rootDefinition :
           Unresolved(reader.definitions, reader.rootDefinition[i]))
     => /\ call.error # NoError
        /\ (Unresolved(reader.definitions, reader.rootDefinition[1]) /\ Len(call.buffer) >= 4)
           => call.error = ErrComplex
  /\ (call.op \in {"calculateByteSize", "writeMessage"}
      /\ UnresolvedBehindArray(writer.definitions, writer.rootDefinition))
     => (call.error = NoError <=> LengthOf(Prop(call.message, "f1")) = 0)
  /\ (call.op = "readMessage" /\ Len(call.buffer) >= 8
      /\ UnresolvedBehindArray(reader.definitions, reader.rootDefinition))
     => IF SubSeq(call.buffer, 5, 8) = Zeros(4)
        THEN call.error = NoError /\ call.value = Obj([n \in {"f1"} |-> Arr(<<>>)])
        ELSE call.error # NoError

\* C14 witness: writeMessage failed on an array without elements of a type
\* that has no definition
EmptyArrayOfUnresolvedTypeFailed ==
  /\ call.op = "writeMessage" /\ call.error = ErrComplex
  /\ Len(writer.rootDefinition) = 2
  /\ Unresolved(writer.definitions, writer.rootDefinition[2])
  /\ writer.rootDefinition[2].isArray
  /\ Prop(call.message, "f2") = Arr(<<>>)

\* a data field whose type is neither complex nor a primitive type
UnknownPrimitive(field) ==
  ~field.isConstant /\ ~field.isComplex /\ field.type \notin deserializers

\* C15: a data field that is not complex and whose type is no primitive type
\* makes readMessage, writeMessage and calculateByteSize fail, scalar or
\* array; no value and no byte comes out.
UnknownPrimitiveFails ==
  /\ (call.op \in {"calculateByteSize", "writeMessage"}
      /\ \E i \in DOMAIN writer.rootDefinition : UnknownPrimitive(writer.rootDefinition[i]))
     => call.error = ErrPrimitive /\ call.data = <<>> /\ call.size = 0
  /\ (call.op = "readMessage"
      /\ \E i \in DOMAIN reader.rootDefinition : UnknownPrimitive(reader.rootDefinition[i]))
     => /\ call.error # NoError /\ call.value = Undefined
        /\ (UnknownPrimitive(reader.rootDefinition[1]) /\ Len(call.buffer) >= 4)
           => call.error = IF reader.rootDefinition[1].isArray
                           THEN ErrPrimitiveArray ELSE ErrPrimitive

\* C15 witness: readMessage failed on a scalar of an unknown type that
\* follows a decodable field
UnknownScalarAfterFieldFailed ==
  /\ call.op = "readMessage" /\ call.error = ErrPrimitive
  /\ Len(reader.rootDefinition) = 2
  /\ UnknownPrimitive(reader.rootDefinition[2])
  /\ ~reader.rootDefinition[2].isArray
  /\ Len(call.buffer) >= 8

\* whether no later definition of the list has the name of definition i
IsLastOfName(defs, i) == \A j \in DOMAIN defs : defs[j].name = defs[i].name => j <= i

RECURSIVE LastOnly(_, _)

\* the definitions from i on without those a later one of the same name hides
LastOnly(defs, i) ==
  IF i > Len(defs) THEN <<>>
  ELSE IF IsLastOfName(defs, i) THEN <<defs[i]>> \o LastOnly(defs, i + 1)
  ELSE LastOnly(defs, i + 1)

HasDuplicates(defs) == \E i \in DOMAIN defs : ~IsLastOfName(defs, i)

\* C16: when definitions share a name, every lookup of the name, in
\* MessageReader and in MessageWriter, gives the field list of the last of
\* them in list order.
DuplicateNameLastWins ==
  /\ WriterBuilt =>
       \A i \in DOMAIN definitions :
         IsLastOfName(definitions, i)
         => writer.definitions[definitions[i].name] = definitions[i].definitions
  /\ ReaderBuilt =>
       \A i \in DOMAIN definitions :
         IsLastOfName(definitions, i)
         => reader.definitions[definitions[i].name] = definitions[i].definitions
  /\ (call.op = "writeMessage" /\ HasDuplicates(definitions))
     => LET r == writeMessage(MessageWriter(LastOnly(definitions, 1)), call.message)
        IN  r.error = call.error /\ r.data = call.data /\ r.size = call.size
  /\ (call.op = "readMessage" /\ HasDuplicates(definitions))
     => LET r == readMessage(MessageReader(LastOnly(definitions, 1), "sec,nsec"), call.buffer)
        IN  /\ r.error = call.error /\ r.consumed = call.consumed
            /\ Renamed(r.value, "nsec") = Renamed(call.value, "nsec")

\* C16 witness: a field of a type defined as uint8 and then as int32 was
\* written as an int32
LastDuplicateWritten ==
  /\ Wrote /\ HasDuplicates(definitions)
  /\ Len(definitions) = 3
  /\ definitions[2].definitions[1].type = "uint8"
  /\ definitions[3].definitions[1].type = "int32"
  /\ call.data = Header \o LEBytes(123, 4)

RECURSIVE DataOnly(_, _)

\* the fields from i on without the constants
DataOnly(fields, i) ==
  IF i > Len(fields) THEN <<>>
  ELSE IF fields[i].isConstant THEN DataOnly(fields, i + 1)
  ELSE <<fields[i]>> \o DataOnly(fields, i + 1)

\* the list with the constants taken out of every definition that keeps a
\* data field
Stripped(defs) ==
  [d \in DOMAIN defs |->
     IF DataFields(defs[d].definitions) = {} THEN defs[d]
     ELSE Definition(defs[d].name, DataOnly(defs[d].definitions, 1))]

RECURSIVE NoConstantKeys(_, _, _)

\* whether a decoded object has the names of the data fields for keys, and
\* so its nested objects
NoConstantKeys(map, fields, value) ==
  /\ value.k = "object"
  /\ DOMAIN value.v = {fields[i].name : i \in DataFields(fields)}
  /\ \A i \in DataFields(fields) :
       (fields[i].isComplex /\ fields[i].type \in DOMAIN map)
       => IF fields[i].isArray
          THEN \A e \in DOMAIN value.v[fields[i].name].v :
                 NoConstantKeys(map, map[fields[i].type], value.v[fields[i].name].v[e])
          ELSE NoConstantKeys(map, map[fields[i].type], value.v[fields[i].name])

\* C17: constant fields are not sized, written or read: calculateByteSize,
\* writeMessage and readMessage give what they give for the definitions
\* without their constants (where a data field remains), and a decoded
\* message has no key for a constant.
ConstantsIgnored ==
  /\ call.op = "calculateByteSize"
     => LET r == calculateByteSize(MessageWriter(Stripped(definitions)), call.message)
        IN  r.error = call.error /\ (r.error = NoError => r.offset = call.size)
  /\ call.op = "writeMessage"
     => LET r == writeMessage(MessageWriter(Stripped(definitions)), call.message)
        IN  r.error = call.error /\ r.data = call.data /\ r.size = call.size
  /\ call.op = "readMessage"
     => LET r == readMessage(MessageReader(Stripped(definitions),
                                           IF reader.useRos1Time THEN "sec,nsec" ELSE ""),
                             call.buffer)
        IN  r.error = call.error /\ r.consumed = call.consumed /\ r.value = call.value
  /\ (call.op = "readMessage" /\ call.error = NoError)
     => NoConstantKeys(reader.definitions, reader.rootDefinition, call.value)

\* C17 witness: a root with a constant before a data field was decoded
ConstantBeforeDataDecoded ==
  /\ call.op = "readMessage" /\ call.error = NoError
  /\ Len(reader.rootDefinition) = 2
  /\ reader.rootDefinition[1].isConstant /\ ~reader.rootDefinition[2].isConstant
  /\ DOMAIN call.value.v = {"f2"}

\* the zero value of a primitive type
ZeroOf(type) ==
  CASE type = "string" -> Str(<<>>)
    [] type = "bool" -> Bool(FALSE)
    [] IsTimeType(type) -> Obj([n \in {"sec", "nsec"} |-> Num(0)])
    [] type \in {"int64", "uint64"} -> Big(0)
    [] OTHER -> Num(0)

\* the message with every absent field set to its declared default or, when
\* none is declared, to the zero value of its type
Filled(fields, message) ==
  Obj([name \in {fields[i].name : i \in DataFields(fields)} |->
         LET field == fields[CHOOSE i \in DataFields(fields) : fields[i].name = name]
         IN  IF ~IsNullish(Prop(message, name)) THEN Prop(message, name)
             ELSE IF ~IsNullish(field.defaultValue) THEN field.defaultValue
             ELSE ZeroOf(field.type)])

\* a root of scalar fields of primitive types
IsScalarRoot(root) ==
  \A i \in DOMAIN root :
    ~root[i].isComplex /\ ~root[i].isArray /\ ~root[i].isConstant
    /\ root[i].type \in PRIMITIVE_WRITERS

\* whether the message has no value for any field
AllAbsent(fields, message) ==
  \A i \in DOMAIN fields : IsNullish(Prop(message, fields[i].name))

\* C20: for a scalar primitive data field without value in the message
\* writeMessage writes the declared defaultValue and, when none is declared,
\* the zero of the type: 0, the empty string, false, sec 0 and nsec 0.
AbsentScalarDefaults ==
  (call.op = "writeMessage" /\ IsScalarRoot(writer.rootDefinition)) =>
    LET root == writer.rootDefinition
    IN  /\ call.error = NoError
        /\ call.data = writeMessage(writer, Filled(root, call.message)).data
        /\ (AllAbsent(writer.rootDefinition, call.message) /\ Len(root) = 2 /\ root[1].type = "uint8"
            /\ root[1].defaultValue = Num(7) /\ root[2].defaultValue = Str(<<104, 105>>))
           => call.data = Header \o <<7, 0, 0, 0, 3, 0, 0, 0, 104, 105, 0>>
        /\ (AllAbsent(writer.rootDefinition, call.message) /\ Len(root) = 2 /\ root[1].type = "bool"
            /\ root[1].defaultValue = Bool(TRUE) /\ root[2].defaultValue = Big(5))
           => call.data = Header \o <<1>> \o Zeros(7) \o <<5>> \o Zeros(7)
        /\ (AllAbsent(writer.rootDefinition, call.message) /\ Len(root) = 2 /\ root[1].type = "int16"
            /\ root[1].defaultValue = Num(-2) /\ root[2].type = "float64"
            /\ root[2].defaultValue = Num(1))
           => call.data = Header \o <<254, 255>> \o Zeros(6) \o Zeros(6) \o <<240, 63>>
        /\ (AllAbsent(writer.rootDefinition, call.message) /\ Len(root) = 2 /\ root[1].type = "time"
            /\ root[2].type = "uint64")
           => call.data = Header \o Zeros(16)
        /\ (AllAbsent(writer.rootDefinition, call.message) /\ Len(root) = 2 /\ root[1].type = "bool"
            /\ IsNullish(root[1].defaultValue) /\ root[2].type = "string"
            /\ IsNullish(root[2].defaultValue))
           => call.data = Header \o <<0, 0, 0, 0, 1, 0, 0, 0, 0>>

\* C20 witness: a message without values was written for fields with
\* declared defaults
DeclaredDefaultsWritten ==
  /\ Wrote /\ AllAbsent(writer.rootDefinition, call.message)
  /\ Len(writer.rootDefinition) = 2
  /\ writer.rootDefinition[1].defaultValue = Num(7)
  /\ writer.rootDefinition[2].defaultValue = Str(<<104, 105>>)
  /\ Len(call.data) = 15

\* whether an offset is a multiple of a, counted from the first payload byte
Aligned(o, a) == (o - 4) % a = 0

\* the first aligned offset at or after o
AlignTo(o, a) == CHOOSE p \in o..(o + a - 1) : Aligned(p, a)

\* the alignment of a primitive type: its width, and 4 for time and duration
AlignmentOfType(type) == IF IsTimeType(type) THEN 4 ELSE PRIMITIVE_SIZES[type]

RECURSIVE LayoutAligned(_, _, _, _)

\* whether byteSize, started at offset, lays every item of these fields at
\* an aligned offset: the offsets before and after field i are the sizes of
\* the fields up to i - 1 and up to i
LayoutAligned(self, fields, message, offset) ==
  \A i \in DataFields(fields) :
    LET field == fields[i]
        value == Prop(message, field.name)
        before == byteSize(self, SubSeq(fields, 1, i - 1), message, offset).offset
        after == byteSize(self, SubSeq(fields, 1, i), message, offset).offset
        n == arrayLengthOf(field, value)
        dynamic == field.isArray /\ field.arrayLength = NoLength
        body == IF dynamic THEN AlignTo(before, 4) + 4 ELSE before
        nested == self.definitions[field.type]
        beforeEntry(j) ==
          byteSizeEntries(self, nested, value, 1, j - 1, Size(body)).offset
        afterString(j) == byteSizeStrings(value, 1, j, Size(body)).offset
        stringStart(j) == afterString(j) - (4 + LengthOf(entryAt(value, j, Str(<<>>))) + 1)
    IN  CASE field.isComplex /\ ~field.isArray ->
               LayoutAligned(self, nested, IF IsNullish(value) THEN EmptyObj ELSE value, before)
          [] field.isComplex /\ field.isArray ->
               /\ \A j \in 1..n :
                    LayoutAligned(self, nested, entryAt(value, j, EmptyObj), beforeEntry(j))
               /\ after = beforeEntry(n + 1)
          [] field.type = "string" /\ ~field.isArray ->
               LET len == IF value.k = "string" THEN Len(value.v) ELSE 0
               IN  after - (4 + len + 1) = AlignTo(before, 4)
          [] field.type = "string" /\ field.isArray ->
               /\ \A j \in 1..n :
                    /\ Aligned(stringStart(j), 4)
                    /\ stringStart(j) = AlignTo(IF j = 1 THEN body ELSE afterString(j - 1), 4)
               /\ after = afterString(n)
          [] ~field.isArray ->
               /\ Aligned(after - PRIMITIVE_SIZES[field.type], AlignmentOfType(field.type))
               /\ after - PRIMITIVE_SIZES[field.type]
                    = AlignTo(before, AlignmentOfType(field.type))
          [] OTHER ->
               /\ Aligned(after - n * PRIMITIVE_SIZES[field.type], AlignmentOfType(field.type))
               /\ after - n * PRIMITIVE_SIZES[field.type]
                    = AlignTo(body, AlignmentOfType(field.type))

\* C18: in the layout calculateByteSize computes, every primitive scalar,
\* every first element of a primitive array, every string length and every
\* array length starts at an offset o with (o - 4) mod a = 0, a the width of
\* the type, and 4 for time, duration and the lengths, at every depth.
AlignmentInvariant ==
  (call.op = "calculateByteSize" /\ call.error = NoError)
  => LayoutAligned(writer, writer.rootDefinition, call.message, 4)

\* C18 witness: an int64 array after a uint8 was sized with padding before
\* the length and none before the elements
PaddedArraySized ==
  /\ call.op = "calculateByteSize" /\ call.error = NoError
  /\ Len(writer.rootDefinition) = 2
  /\ IsScalarOf(writer.rootDefinition[1], "uint8")
  /\ writer.rootDefinition[2].type = "int64" /\ writer.rootDefinition[2].isArray
  /\ LengthOf(Prop(call.message, "f2")) = 2
  /\ call.size = 28

WithField(message, name, value) == Obj([message.v EXCEPT ![name] = value])

\* a scalar data field of a 64-bit integer type
IsWideScalar(field) ==
  /\ ~field.isArray /\ ~field.isComplex /\ ~field.isConstant
  /\ field.type \in {"int64", "uint64"}

\* C21: a 64-bit integer field takes a bigint or a plain integer number:
\* writeMessage writes for the number k the 8 bytes it writes for the bigint
\* k, and calculateByteSize counts 8 bytes aligned to 8 for both.
WideIntegerTakesNumber ==
  (WriterBuilt /\ call.op \in {"calculateByteSize", "writeMessage"}) =>
    \A i \in DOMAIN writer.rootDefinition :
      LET root == writer.rootDefinition
          value == Prop(call.message, root[i].name)
          twin == WithField(call.message, root[i].name, Big(value.v))
          before == byteSize(writer, SubSeq(root, 1, i - 1), call.message, 4).offset
          after == byteSize(writer, SubSeq(root, 1, i), call.message, 4).offset
          start == AlignTo(before, 8)
      IN  (IsWideScalar(root[i]) /\ value.k = "number" /\ IsScalarRoot(root)) =>
            /\ call.error = NoError
            /\ call.op = "writeMessage" =>
                 /\ call.data = writeMessage(writer, twin).data
                 /\ SubSeq(call.data, start + 1, start + 8) = LEBytes(value.v, 8)
            /\ call.op = "calculateByteSize" =>
                 /\ call.size = calculateByteSize(writer, twin).offset
                 /\ after = start + 8

\* C21 witness: the number 42 was written for an int64 field after a bool
NumberWrittenAsInt64 ==
  /\ Wrote
  /\ Len(writer.rootDefinition) = 2
  /\ IsScalarOf(writer.rootDefinition[2], "int64")
  /\ Prop(call.message, "f2") = Num(42)
  /\ Prop(call.message, "f1") = Bool(TRUE)
  /\ call.data = Header \o <<1>> \o Zeros(7) \o <<42>> \o Zeros(7)

\* C22: for every offset >= 4 and every byte width of 1, 2, 4, 8,
\* padding(offset, byteWidth) is (byteWidth - ((offset - 4) mod byteWidth))
\* mod byteWidth: it lies in 0..byteWidth-1, it is 0 exactly when offset - 4
\* is a multiple of byteWidth, and offset + padding - 4 is such a multiple.
PaddingFormula ==
  (call.op = "padding" /\ call.returned) =>
    LET o == call.offset
        w == call.byteWidth
        p == call.result
    IN  /\ w \in {1, 2, 4, 8}
        /\ p = (w - ((o - 4) % w)) % w
        /\ p \in 0..(w - 1)
        /\ (p = 0) <=> ((o - 4) % w = 0)
        /\ (o + p - 4) % w = 0

\* C22 witness: padding returned 0 at an aligned offset and 7 one byte after
\* it was asked for a width of 8
PaddingReturned ==
  /\ call.op = "padding" /\ call.returned
  /\ call.byteWidth = 8
  /\ \/ call.offset = 12 /\ call.result = 0
     \/ call.offset = 13 /\ call.result = 7

\* a dynamic array data field of a primitive type
IsDynamicPrimitiveArray(field) ==
  /\ field.isArray /\ field.arrayLength = NoLength
  /\ ~field.isComplex /\ ~field.isConstant
  /\ field.type \in PRIMITIVE_ARRAY_WRITERS

RECURSIVE StringsIn(_, _)

\* the number of strings encoded in data from offset to its end
StringsIn(data, offset) ==
  LET start == offset + padding(offset, 4)
  IN  IF start + 4 > Len(data) THEN 0
      ELSE 1 + StringsIn(data, start + 4 + DecodeUnsigned(SubSeq(data, start + 1, start + 4)))

\* the number of elements of this type encoded in data from offset to its
\* end: strings one by one, the others by their width behind the padding
ElementsIn(type, data, offset) ==
  IF type = "string" THEN StringsIn(data, offset)
  ELSE (Len(data) - offset) \div PRIMITIVE_SIZES[type]

\* C23: in every output of writeMessage the uint32 count of a dynamic array
\* field is the number of elements encoded right after it, whatever the
\* message holds for the field (here the field is the last one of a root of
\* scalars, so its elements run to the end of the output).
CountIsNumberOfElements ==
  Wrote =>
    LET root == writer.rootDefinition
        last == Len(root)
        before == write(writer, SubSeq(root, 1, last - 1), call.message, CdrWriter).data
        at == Len(before) + padding(Len(before), 4)
        count == DecodeUnsigned(SubSeq(call.data, at + 1, at + 4))
    IN  (/\ root # <<>>
         /\ IsDynamicPrimitiveArray(root[last])
         /\ IsScalarRoot(SubSeq(root, 1, last - 1)))
        => count = ElementsIn(root[last].type, call.data, at + 4)

RECURSIVE Utf8Length(_)

\* the number of bytes of the UTF-8 encoding of a string
Utf8Length(s) == IF s = <<>> THEN 0 ELSE Len(Utf8Char(Head(s))) + Utf8Length(Tail(s))

\* C24: for a scalar string field with value s at offset o calculateByteSize
\* adds padding(o, 4) + 4 + the number of bytes of the UTF-8 encoding of s
\* + 1, also for characters that take more than one UTF-8 byte.
StringSizeIsUtf8Length ==
  (call.op = "calculateByteSize" /\ call.error = NoError) =>
    \A i \in DOMAIN writer.rootDefinition :
      LET root == writer.rootDefinition
          value == Prop(call.message, root[i].name)
          before == byteSize(writer, SubSeq(root, 1, i - 1), call.message, 4).offset
          after == byteSize(writer, SubSeq(root, 1, i), call.message, 4).offset
      IN  (IsScalarOf(root[i], "string") /\ value.k = "string") =>
            after = before + padding(before, 4) + 4 + Utf8Length(value.v) + 1

\* the width the claim gives for a primitive type that is no string
ClaimedWidth(type) ==
  CASE type \in {"bool", "int8", "uint8"} -> 1
    [] type \in {"int16", "uint16"} -> 2
    [] type \in {"int32", "uint32", "float32"} -> 4
    [] type \in {"int64", "uint64", "float64", "time", "duration"} -> 8

\* the alignment the claim gives for such a type
ClaimedAlignment(type) ==
  IF type \in {"time", "duration"} THEN 4 ELSE ClaimedWidth(type)

\* a data field of a primitive type that is no string
IsSizedPrimitive(field) ==
  /\ ~field.isComplex /\ ~field.isConstant
  /\ field.type \in DOMAIN PRIMITIVE_SIZES

\* C25: for a primitive field that is no string calculateByteSize adds
\* padding(o, a) + w for a scalar and, for an array of n elements, padding
\* to 4 plus 4 if the array is dynamic and then padding to a plus w * n;
\* (w, a) is (1,1), (2,2), (4,4), (8,8) by the width of the type and (8,4)
\* for time and duration; n is arrayLength for a fixed array and the length
\* supplied for a dynamic one.
PrimitiveSizes ==
  (call.op = "calculateByteSize" /\ call.error = NoError) =>
    \A i \in DOMAIN writer.rootDefinition :
      LET root == writer.rootDefinition
          field == root[i]
          value == Prop(call.message, field.name)
          before == byteSize(writer, SubSeq(root, 1, i - 1), call.message, 4).offset
          after == byteSize(writer, SubSeq(root, 1, i), call.message, 4).offset
          w == ClaimedWidth(field.type)
          a == ClaimedAlignment(field.type)
          n == IF field.arrayLength # NoLength THEN field.arrayLength
               ELSE IF value.k \in {"array", "typed", "string"} THEN Len(value.v) ELSE 0
          body == IF field.arrayLength = NoLength
                  THEN before + padding(before, 4) + 4
                  ELSE before
      IN  IsSizedPrimitive(field) =>
            after = IF field.isArray
                    THEN body + padding(body, a) + w * n
                    ELSE before + padding(before, a) + w

\* C25 witness: a duration after a uint8 was counted with padding to 4
DurationSizedAfterByte ==
  /\ call.op = "calculateByteSize" /\ call.error = NoError
  /\ Len(writer.rootDefinition) = 2
  /\ IsScalarOf(writer.rootDefinition[1], "uint8")
  /\ IsScalarOf(writer.rootDefinition[2], "duration")
  /\ call.size = 16

\* C26: the size calculation, the writer and the reader visit the same
\* sequence of wire items for a schema and a value: the data fields in
\* declaration order, a nested type wholly before the next field, array
\* elements by increasing index, none twice.  Visiting the same items, the
\* three count, write and consume the same bytes: for a value of the schema
\* the size calculated is the length written, and a reader of the same root
\* decodes the written array to its end, field by field, into that value.
SameWireItems ==
  (/\ call.op = "readWritten"
   /\ writer.rootDefinition = reader.rootDefinition
   /\ Fits(reader.definitions, reader.rootDefinition, call.message))
  => /\ call.size = Len(call.data)
     /\ call.error = NoError
     /\ call.consumed = Len(call.data)
     /\ \A i \in DataFields(reader.rootDefinition) :
          LET field == reader.rootDefinition[i]
          IN  Prop(call.value, field.name)
                = ExpectedField(reader.definitions, field, Prop(call.message, field.name),
                                reader.useRos1Time)

\* the codecs a caller builds from the definitions for one call only
FreshWriter == MessageWriter(definitions)
FreshReader ==
  MessageReader(definitions, IF reader.useRos1Time THEN "sec,nsec" ELSE "sec,nanosec")

Referred(fields) ==
  {fields[i].type : i \in {j \in DOMAIN fields : fields[j].isComplex /\ ~fields[j].isConstant}}

RECURSIVE ReachableIn(_, _, _)

\* the defined types reached from a set of types in at most n references
ReachableIn(map, types, n) ==
  IF n = 0 THEN types
  ELSE ReachableIn(map,
         types \cup UNION {Referred(map[t]) : t \in types \cap DOMAIN map}, n - 1)

\* no definition refers to itself, in any number of references
Acyclic(map) ==
  \A t \in DOMAIN map :
    t \notin ReachableIn(map, Referred(map[t]), Cardinality(DOMAIN map))

RECURSIVE NestingDepth(_, _)

\* the nesting depth of a list of fields of an acyclic schema: 1 without a
\* field of a complex type
NestingDepth(map, fields) ==
  LET below == {NestingDepth(map, map[t]) : t \in Referred(fields) \cap DOMAIN map}
  IN  1 + (IF below = {} THEN 0 ELSE CHOOSE d \in below : \A e \in below : e <= d)

\* a list of fields that refers to itself through a field of a complex type
\* that is no array
RefersToItself(map, fields) ==
  \E i \in DOMAIN fields :
    /\ fields[i].isComplex /\ ~fields[i].isArray /\ ~fields[i].isConstant
    /\ fields[i].type \in DOMAIN map /\ map[fields[i].type] = fields

\* a root that refers to itself in this way, or holds a field of a type that
\* does
SelfReferring(map, root) ==
  \/ RefersToItself(map, root)
  \/ \E i \in DOMAIN root :
       /\ root[i].isComplex /\ ~root[i].isArray /\ ~root[i].isConstant
       /\ root[i].type \in DOMAIN map /\ RefersToItself(map, map[root[i].type])

\* C28: for definitions whose graph of references is acyclic
\* calculateByteSize, writeMessage and readMessage terminate, with a result
\* or an error, and never nest deeper than the schema; for a definition
\* that refers to itself through a field of a complex type that is no array,
\* calculateByteSize and writeMessage never return, also for a message
\* without that field.
TerminatesIffAcyclic ==
  /\ Acyclic(writer.definitions) => <>(call.status # "running")
  /\ [](Acyclic(writer.definitions) =>
          Len(call.stack) <= NestingDepth(writer.definitions,
                                          IF call.op = "readMessage"
                                          THEN reader.rootDefinition
                                          ELSE writer.rootDefinition))
  /\ []((/\ SelfReferring(writer.definitions, writer.rootDefinition)
         /\ call.op \in {"calculateByteSize", "writeMessage"})
        => call.status # "returned")

\* C28 witness: calculateByteSize of a message without fields ran out of
\* stack on a root that refers to itself
SelfReferenceOverflowed ==
  /\ call.op = "calculateByteSize" /\ call.status = "thrown" /\ call.error = ErrStack
  /\ SelfReferring(writer.definitions, writer.rootDefinition)
  /\ call.message = EmptyObj
  /\ Len(call.stack) = MaxStack

\* C29: writeMessage(message, output) with an output shorter than
\* calculateByteSize(message) fails with an error and writes nothing past
\* the end of the output; with an output at least that long it writes into
\* the output and returns exactly calculateByteSize(message) bytes.
OutputIsBoundChecked ==
  (call.op = "writeMessageInto"
   /\ calculateByteSize(writer, call.message).error = NoError) =>
    LET size == calculateByteSize(writer, call.message).offset
    IN  /\ Len(call.buffer) < size => call.error # NoError
        /\ Len(call.buffer) >= size =>
             /\ call.error = NoError
             /\ Len(call.data) = size

\* a string, string array or primitive array data field with a declared
\* default that is not empty, for which the message has no value
DefaultSubstituted(field, message) ==
  /\ ~field.isComplex /\ ~field.isConstant
  /\ IsNullish(Prop(message, field.name))
  /\ IF field.isArray
     THEN field.arrayLength = NoLength /\ field.defaultValue.k = "array"
          /\ field.defaultValue.v # <<>>
     ELSE field.type = "string" /\ field.defaultValue.k = "string"
          /\ field.defaultValue.v # <<>>

\* C30: where the writer puts a declared defaultValue in the place of a
\* missing string, string array or primitive array, calculateByteSize counts
\* the bytes of that default, so that a message without the field still has
\* calculateByteSize(v) = length of writeMessage(v).
DefaultsSizedAsWritten ==
  (/\ Wrote
   /\ \E i \in DOMAIN writer.rootDefinition :
        DefaultSubstituted(writer.rootDefinition[i], call.message))
  => /\ call.size = Len(call.data)
     /\ call.size = calculateByteSize(writer, Filled(writer.rootDefinition, call.message)).offset

====
